---------------------------- MODULE Spec2Model ----------------------------
(***************************************************************************)
(* Region-aware pixel recoloring engine of the game-design toolkit:        *)
(* ImageProcessor (colour conversion, dominant colour, global adjustment), *)
(* MultiRegionImageProcessor (k-means region detection, region masks,      *)
(* multi-region compositing) and ColorReplacementProcessor (selection      *)
(* masks, winner-take-all replacements).                                   *)
(*                                                                         *)
(* Numbers.  The code computes in IEEE doubles.  The model computes in     *)
(* fixed point: hue, saturation, lightness and distances are integers in   *)
(* units of 1/Q (hue 240 degrees is 240*Q), mask weights and exponentials  *)
(* are integers in units of 1/W.  Every division rounds to the nearest     *)
(* unit, so a model value differs from the double by a few units of 1/Q.   *)
(* RGBA channels are the integers 0..255 of the Uint8ClampedArray.         *)
(***************************************************************************)
EXTENDS Integers, Sequences, FiniteSets, TLC

\* Fixed-point resolution: units per degree of hue / percent of s and l.
Q == 100

\* Resolution of mask weights and of Math.exp results.
W == Q * Q

----------------------------------------------------------------------------
(* Arithmetic helpers                                                      *)

Abs(x) == IF x < 0 THEN 0 - x ELSE x

Min2(x, y) == IF x < y THEN x ELSE y

Max2(x, y) == IF x > y THEN x ELSE y

\* Math.round(n / d) for d > 0: floor(n/d + 1/2).
RoundDiv(n, d) == (n + d \div 2) \div d

\* Math.max(lo, Math.min(hi, x))
Clamp(x, lo, hi) == Max2(lo, Min2(hi, x))

\* The element of a one-element set: with the set built over a value, the
\* value is computed once and then used by name.
TheOne(S) == CHOOSE e \in S : TRUE

\* The sequence with the elements of f, computed once.
Materialize(f) == TheOne({ SubSeq(v, 1, Len(v)) : v \in { f } })

RECURSIVE SqrtIter(_, _, _)
SqrtIter(n, lo, hi) ==
    IF lo >= hi THEN lo
    ELSE TheOne({ IF mid * mid <= n THEN SqrtIter(n, mid, hi)
                                    ELSE SqrtIter(n, lo, mid - 1) :
                  mid \in { (lo + hi + 1) \div 2 } })

\* Math.sqrt on a value in units of 1/Q^2, result in units of 1/Q.
Sqrt(n) == TheOne({ SqrtIter(v, 0, 32767) : v \in { n } })

RECURSIVE SumSeq(_)
SumSeq(s) ==
    TheOne({ IF v = <<>> THEN 0 ELSE Head(v) + SumSeq(Tail(v)) : v \in { s } })

\* The value NaN of a double (0/0), kept apart from every number of the model.
NaN == -1

IsNaN(x) == x = NaN

----------------------------------------------------------------------------
(* ImageProcessor: colour-space conversion                                 *)

Rgb(r, g, b) == [r |-> r, g |-> g, b |-> b]

Hsl(h, s, l) == [h |-> h, s |-> s, l |-> l]

\* The colour with the greatest channel as its lightness (the value of HSV).
RgbToValue(r, g, b) == Hsl(0, 0, RoundDiv(Max2(r, Max2(g, b)) * 100 * Q, 255))

\* ImageProcessor.rgbToHsl: h in [0, 360*Q), s and l in [0, 100*Q].
RgbToHsl(r, g, b) ==
    LET Convert(rv, gv, bv, max, min) ==
            LET l == RoundDiv((max + min) * 100 * Q, 510)
                d == max - min
            IN  IF max = min THEN Hsl(0, 0, l)
                ELSE LET s == IF max + min > 255
                              THEN RoundDiv(d * 100 * Q, 510 - max - min)
                              ELSE RoundDiv(d * 100 * Q, max + min)
                         h == IF max = rv
                              THEN RoundDiv((gv - bv) * 60 * Q, d)
                                   + (IF gv < bv THEN 360 * Q ELSE 0)
                              ELSE IF max = gv
                              THEN RoundDiv((bv - rv) * 60 * Q, d) + 120 * Q
                              ELSE RoundDiv((rv - gv) * 60 * Q, d) + 240 * Q
                     IN  Hsl(h, s, l)
    IN  TheOne({ TheOne({ Convert(rv, gv, bv, max, min) :
                          max \in { Max2(rv, Max2(gv, bv)) },
                          min \in { Min2(rv, Min2(gv, bv)) } }) :
                 rv \in { r }, gv \in { g }, bv \in { b } })

\* hue2rgb of hslToRgb; p, q in units of 1/(100*Q), t in hue units.
Hue2Rgb(p, q, t0) ==
    LET t1 == IF t0 < 0 THEN t0 + 360 * Q ELSE t0
        t  == IF t1 > 360 * Q THEN t1 - 360 * Q ELSE t1
    IN  IF t < 60 * Q THEN p + RoundDiv((q - p) * t, 60 * Q)
        ELSE IF t < 180 * Q THEN q
        ELSE IF t < 240 * Q THEN p + RoundDiv((q - p) * (240 * Q - t), 60 * Q)
        ELSE p

\* The gray of the lightness, whatever the hue and the saturation.
HslToGray(h, s, l) == Rgb(RoundDiv(l * 255, 100 * Q), RoundDiv(l * 255, 100 * Q),
                          RoundDiv(l * 255, 100 * Q))

\* ImageProcessor.hslToRgb: each channel Math.round(v * 255).
HslToRgb(h, s, l) ==
    LET F == 100 * Q
        Channel(p, q, t) == TheOne({ Hue2Rgb(p, q, tv) : tv \in { t } })
        Convert(hv, sv, lv) ==
            IF sv = 0
            THEN LET v == RoundDiv(lv * 255, F) IN Rgb(v, v, v)
            ELSE TheOne({ TheOne({ Rgb(RoundDiv(Channel(p, q, hv + 120 * Q) * 255, F),
                                       RoundDiv(Channel(p, q, hv) * 255, F),
                                       RoundDiv(Channel(p, q, hv - 120 * Q) * 255, F)) :
                                   p \in { 2 * lv - q } }) :
                          q \in { IF 2 * lv < F THEN RoundDiv(lv * (F + sv), F)
                                                ELSE lv + sv - RoundDiv(lv * sv, F) } })
    IN  TheOne({ Convert(hv, sv, lv) : hv \in { h }, sv \in { s }, lv \in { l } })

----------------------------------------------------------------------------
(* Pixel buffers                                                           *)

Pixel(r, g, b, a) == [r |-> r, g |-> g, b |-> b, a |-> a]

\* Alpha below which a pixel is treated as transparent.
AlphaThreshold == 128

\* getDominantColor reads every 10th pixel (byte step 40).
DominantStride == 10

\* 4 channels * 4 pixel skip
SampleStride == 4

\* Pixels the buffers are drawn from: saturated, mid-saturation with alpha
\* exactly at the threshold, achromatic, low-saturation, and one just
\* below the alpha threshold.
Palette ==
    { Pixel(255, 0, 0, 255),
      Pixel(100, 150, 200, 128),
      Pixel(128, 128, 128, 255),
      Pixel(150, 130, 120, 255),
      Pixel(200, 60, 60, 127) }

\* Number of pixels of a buffer.
ImgLen == 13

\* A buffer is made of NumBands runs of equal pixels; a run is BandLen pixels
\* long, the last one reaches to the end of the buffer.
NumBands == 2

BandLen == 5

\* The buffer whose i-th run repeats bands[i].
ImageOf(bands) ==
    [i \in 1..ImgLen |-> bands[Min2((i - 1) \div BandLen, Len(bands) - 1) + 1]]

Images == { ImageOf(t) : t \in [1..NumBands -> Palette] }

\* Indices (1-based) of the pixels a loop "for (i = 0; i < length; i += 4*stride)" reads.
Strided(img, stride) == { i \in 1..Len(img) : (i - 1) % stride = 0 }

----------------------------------------------------------------------------
(* ImageProcessor.getDominantColor                                         *)

IsDominantSample(px) == px.a > AlphaThreshold

GetDominantColor(img) ==
    LET idx   == { i \in Strided(img, DominantStride) : IsDominantSample(img[i]) }
        RECURSIVE Tot(_, _)
        Tot(S, ch) == IF S = {} THEN 0
                      ELSE LET i == CHOOSE j \in S : TRUE
                           IN  img[i][ch] + Tot(S \ {i}, ch)
        n     == Cardinality(idx)
    IN  IF n = 0 THEN Rgb(128, 128, 128)
        ELSE Rgb(RoundDiv(Tot(idx, "r"), n),
                 RoundDiv(Tot(idx, "g"), n),
                 RoundDiv(Tot(idx, "b"), n))

----------------------------------------------------------------------------
(* ImageProcessor.applyHslAdjustment                                       *)

\* The pixel loop without the copy of alpha: the fresh buffer's alpha stays 0.
AdjustPixelAlphaUnset(px, hueShift, satRatioNum, satRatioDen, lightShift) ==
    LET c    == RgbToHsl(px.r, px.g, px.b)
        newH == (c.h + hueShift + 360 * Q) % (360 * Q)
        newS == Clamp(RoundDiv(c.s * satRatioNum, satRatioDen), 0, 100 * Q)
        newL == Clamp(c.l + lightShift, 0, 100 * Q)
        n    == HslToRgb(newH, newS, newL)
    IN  Pixel(n.r, n.g, n.b, 0)

\* One pixel of the loop at applyHslAdjustment: shift, clamp, convert back.
AdjustPixel(px, hueShift, satRatioNum, satRatioDen, lightShift) ==
    LET c    == RgbToHsl(px.r, px.g, px.b)
        newH == (c.h + hueShift + 360 * Q) % (360 * Q)
        newS == Clamp(RoundDiv(c.s * satRatioNum, satRatioDen), 0, 100 * Q)
        newL == Clamp(c.l + lightShift, 0, 100 * Q)
        n    == HslToRgb(newH, newS, newL)
    IN  Pixel(n.r, n.g, n.b, px.a)

\* The global adjustment with the saturation ratio falling back to 0.
ApplyHslAdjustmentZeroRatio(img, targetRgb) ==
    LET dom == GetDominantColor(img)
        d   == RgbToHsl(dom.r, dom.g, dom.b)
        t   == RgbToHsl(targetRgb.r, targetRgb.g, targetRgb.b)
        hueShift   == t.h - d.h
        ratioNum   == IF d.s > 0 THEN t.s ELSE 0
        ratioDen   == IF d.s > 0 THEN d.s ELSE 1
        lightShift == t.l - d.l
    IN  [i \in 1..Len(img) |-> AdjustPixel(img[i], hueShift, ratioNum, ratioDen, lightShift)]

\* A target with a NaN channel: rgbToHsl gives max = min = NaN, so targetL is
\* NaN (and targetH stays 0); lightnessShift and every newL are NaN, hslToRgb
\* returns NaN for the three channels in either branch, and the
\* Uint8ClampedArray stores NaN as 0.
ApplyHslAdjustment(img, targetRgb) ==
    IF IsNaN(targetRgb.r) \/ IsNaN(targetRgb.g) \/ IsNaN(targetRgb.b)
    THEN [i \in 1..Len(img) |-> Pixel(0, 0, 0, img[i].a)]
    ELSE
    LET dom == GetDominantColor(img)
        d   == RgbToHsl(dom.r, dom.g, dom.b)
        t   == RgbToHsl(targetRgb.r, targetRgb.g, targetRgb.b)
        hueShift   == t.h - d.h
        ratioNum   == IF d.s > 0 THEN t.s ELSE 1
        ratioDen   == IF d.s > 0 THEN d.s ELSE 1
        lightShift == t.l - d.l
    IN  [i \in 1..Len(img) |-> AdjustPixel(img[i], hueShift, ratioNum, ratioDen, lightShift)]

----------------------------------------------------------------------------
(* Math.sin, Math.cos, Math.atan2 and Math.exp in fixed point              *)

\* sin of 0..90 whole degrees, in units of 1/10000.
SinTable ==
    << 0, 175, 349, 523, 698, 872, 1045, 1219, 1392, 1564,
       1736, 1908, 2079, 2250, 2419, 2588, 2756, 2924, 3090, 3256,
       3420, 3584, 3746, 3907, 4067, 4226, 4384, 4540, 4695, 4848,
       5000, 5150, 5299, 5446, 5592, 5736, 5878, 6018, 6157, 6293,
       6428, 6561, 6691, 6820, 6947, 7071, 7193, 7314, 7431, 7547,
       7660, 7771, 7880, 7986, 8090, 8192, 8290, 8387, 8480, 8572,
       8660, 8746, 8829, 8910, 8988, 9063, 9135, 9205, 9272, 9336,
       9397, 9455, 9511, 9563, 9613, 9659, 9703, 9744, 9781, 9816,
       9848, 9877, 9903, 9925, 9945, 9962, 9976, 9986, 9994, 9998,
       10000 >>

\* sin of a whole number of degrees d in 0..360, in units of 1/10000.
SinDeg(d) ==
    (IF d <= 180 THEN 1 ELSE -1)
    * SinTable[1 + (IF d <= 90 THEN d
                    ELSE IF d <= 180 THEN 180 - d
                    ELSE IF d <= 270 THEN d - 180
                    ELSE 360 - d)]

CosDeg(d) == SinDeg((d + 90) % 360)

\* Math.sin((h * Math.PI) / 180) for a hue h in units of 1/Q, 0 <= h < 360*Q:
\* linear interpolation between whole degrees, result in units of 1/10000.
SinHue(h) ==
    LET d == h \div Q
        f == h % Q
    IN  SinDeg(d) + RoundDiv((SinDeg(d + 1) - SinDeg(d)) * f, Q)

CosHue(h) == SinHue((h + 90 * Q) % (360 * Q))

\* x*cos(d) + y*sin(d): how far (x, y) reaches in the direction of d degrees.
DirDot(x, y, d) == x * CosDeg(d % 360) + y * SinDeg(d % 360)

\* d is a direction of step-wise greatest reach of (x, y).
IsPeak(x, y, d, step) ==
    \A reach \in { DirDot(x, y, d) } :
        /\ reach > 0
        /\ reach >= DirDot(x, y, d + step)
        /\ reach >= DirDot(x, y, d + 360 - step)

\* The whole degree in 0..359 whose direction is nearest to (x, y) /= (0, 0):
\* first among the multiples of 10, then among the degrees around it.
NearestDeg(x, y) ==
    TheOne({ (CHOOSE d \in (c + 351)..(c + 369) : IsPeak(x, y, d, 1)) % 360 :
             c \in { CHOOSE d \in { 10 * i : i \in 0..35 } : IsPeak(x, y, d, 10) } })

\* (Math.atan2(y, x) * 180) / Math.PI followed by "if (avgH < 0) avgH += 360":
\* the angle of the vector (x, y) as a hue in units of 1/Q, in [0, 360*Q].
\* Math.atan2(0, 0) is 0.
Atan2Hue(y, x) ==
    IF x = 0 /\ y = 0 THEN 0
    ELSE TheOne({ TheOne({
             LET dot   == (v.x * cs.cos + v.y * cs.sin) \div 1000
                 cross == (v.y * cs.cos - v.x * cs.sin) \div 1000
             IN  TheOne({ IF a < 0 THEN a + 360 * Q ELSE a :
                          a \in { cs.d * Q + RoundDiv(cross * 573 * Q, dot * 10) } }) :
             cs \in { [d |-> d, cos |-> CosDeg(d), sin |-> SinDeg(d)] :
                         d \in { NearestDeg(v.x, v.y) } } }) :
           v \in { [x |-> (x * 10000) \div m, y |-> (y * 10000) \div m] :
                      m \in { Max2(Abs(x), Abs(y)) } } })

\* e^-n for n in 0..9, e^-(n/10) and e^-(n/100), in units of 1/10000.
ExpUnits == << 10000, 3679, 1353, 498, 183, 67, 25, 9, 3, 1 >>

ExpTenths == << 10000, 9048, 8187, 7408, 6703, 6065, 5488, 4966, 4493, 4066 >>

ExpHundredths == << 10000, 9900, 9802, 9704, 9608, 9512, 9418, 9324, 9231, 9139 >>

\* Math.exp(-x) for x >= 0 in units of 1/Q, result in units of 1/W.
ExpNeg(x) ==
    LET c == (x * 100) \div Q
        n == c \div 100
        t == (c \div 10) % 10
        u == c % 10
    IN  IF n > 9 THEN 0
        ELSE LET v == RoundDiv(RoundDiv(ExpUnits[n + 1] * ExpTenths[t + 1], 10000)
                               * ExpHundredths[u + 1], 10000)
             IN  RoundDiv(v * W, 10000)

\* (n/100)^0.7 for n in 0..100, in units of 1/10000.
Pow07Table ==
    << 0, 398, 647, 859, 1051, 1228, 1395, 1554, 1707, 1853,
       1995, 2133, 2267, 2398, 2525, 2650, 2773, 2893, 3011, 3127,
       3241, 3354, 3465, 3574, 3683, 3789, 3895, 3999, 4102, 4204,
       4305, 4405, 4504, 4602, 4699, 4796, 4891, 4986, 5080, 5173,
       5266, 5357, 5448, 5539, 5629, 5718, 5807, 5895, 5982, 6069,
       6156, 6242, 6327, 6412, 6496, 6580, 6664, 6747, 6830, 6912,
       6994, 7075, 7156, 7237, 7317, 7397, 7476, 7555, 7634, 7712,
       7791, 7868, 7946, 8023, 8100, 8176, 8252, 8328, 8404, 8479,
       8554, 8629, 8703, 8777, 8851, 8925, 8998, 9071, 9144, 9217,
       9289, 9361, 9433, 9505, 9576, 9647, 9718, 9789, 9860, 9930,
       10000 >>

\* Math.pow(x, 0.7) for x in 0..W (units of 1/W), result in units of 1/W:
\* linear interpolation between whole hundredths.
Pow07(x) ==
    LET c  == (x * 100) \div W
        f  == x * 100 - c * W
        lo == Pow07Table[c + 1]
        hi == IF c >= 100 THEN lo ELSE Pow07Table[c + 2]
    IN  RoundDiv((lo * W + (hi - lo) * f) \div 100, 100)

----------------------------------------------------------------------------
(* Hex colour strings                                                      *)

\* A colour string: null, or an optional '#' followed by characters, each
\* character given as its hex digit value 0..15, or 16 for any other one.
NoColor == [null |-> TRUE, hash |-> FALSE, chars |-> <<>>]

HexStr(hash, chars) == [null |-> FALSE, hash |-> hash, chars |-> chars]

\* rgbToHex: '#' and two hex digits per channel.
RgbToHex(r, g, b) ==
    HexStr(TRUE, <<r \div 16, r % 16, g \div 16, g % 16, b \div 16, b % 16>>)

\* hexToRgb of both processors: /^#?([a-f\d]{2})([a-f\d]{2})([a-f\d]{2})$/i,
\* mid-gray when the string does not match.
HexToRgb(hex) ==
    IF Len(hex.chars) = 6 /\ \A i \in 1..6 : hex.chars[i] \in 0..15
    THEN Rgb(hex.chars[1] * 16 + hex.chars[2],
             hex.chars[3] * 16 + hex.chars[4],
             hex.chars[5] * 16 + hex.chars[6])
    ELSE Rgb(128, 128, 128)

\* JavaScript truthiness of a string | null: non-null and non-empty.
Truthy(hex) == ~hex.null /\ (hex.hash \/ hex.chars /= <<>>)

HexToHsl(hex) == TheOne({ RgbToHsl(c.r, c.g, c.b) : c \in { HexToRgb(hex) } })

\* The characters of the string: '#' (17) first when it has one.
HexChars(hex) == IF hex.hash THEN <<17>> \o hex.chars ELSE hex.chars

\* String.prototype.slice(start, end) with 0 <= start <= end: positions count
\* from 0, a range past the end is cut short.
Slice(chars, start, end) == SubSeq(chars, start + 1, Min2(end, Len(chars)))

\* parseInt(s, 16) of a string of at most two characters, none of them
\* whitespace, a sign or 'x': the leading hex digits, NaN without any.
ParseInt16(s) ==
    IF Len(s) = 0 \/ s[1] \notin 0..15 THEN NaN
    ELSE IF Len(s) >= 2 /\ s[2] \in 0..15 THEN s[1] * 16 + s[2]
    ELSE s[1]

\* ColorConverter.hexToRgb: the characters at 1-2, 3-4 and 5-6, unchecked.
ColorConverterHexToRgb(hexcode) ==
    LET cs == HexChars(hexcode)
    IN  Rgb(ParseInt16(Slice(cs, 1, 3)), ParseInt16(Slice(cs, 3, 5)),
            ParseInt16(Slice(cs, 5, 7)))

\* TextureAdjuster.applyAdjustment with an image loaded: the adjusted canvas;
\* the empty buffer when no target colour is set (the method returns after
\* the alert).
ApplyAdjustment(img, currentTargetColor) ==
    IF ~Truthy(currentTargetColor) THEN <<>>
    ELSE ApplyHslAdjustment(img, ColorConverterHexToRgb(currentTargetColor))

----------------------------------------------------------------------------
(* MultiRegionImageProcessor: distance, masks, compositing                 *)

\* The distance with the hue difference taken along the line, not the circle.
HslDistanceLinear(a, b) ==
    LET hueDiff   == Abs(a.h - b.h)
        hueTerm   == RoundDiv(hueDiff * (a.s + b.s), 200 * Q)
        satDiff   == Abs(a.s - b.s)
        lightDiff == Abs(a.l - b.l)
    IN  Sqrt(hueTerm * hueTerm + satDiff * satDiff + lightDiff * lightDiff)

\* hslDistance: weighted Euclidean distance with circular hue, units of 1/Q.
HslDistance(a, b) ==
    LET d0        == Abs(a.h - b.h)
        hueDiff   == IF d0 > 180 * Q THEN 360 * Q - d0 ELSE d0
        hueTerm   == RoundDiv(hueDiff * (a.s + b.s), 200 * Q)
        satDiff   == Abs(a.s - b.s)
        lightDiff == Abs(a.l - b.l)
    IN  Sqrt(hueTerm * hueTerm + satDiff * satDiff + lightDiff * lightDiff)

\* A ColorRegion (the display name is not modelled).
Region(id, centroid, target, count) ==
    [id |-> id, centroidHsl |-> centroid, targetColor |-> target, pixelCount |-> count]

\* falloffDivisor = 50 + (1 - sharpness) * 1950, sharpness given in percent.
FalloffDivisor(sharpness) == 50 * Q + RoundDiv((100 - sharpness) * 1950 * Q, 100)

\* Index of the first entry of dists attaining the minimum:
\* distances.reduce((min, curr) => curr.dist < min.dist ? curr : min).
FirstMinIndex(dists) ==
    TheOne({ CHOOSE i \in 1..Len(d) :
                 /\ \A j \in 1..Len(d) : d[i] <= d[j]
                 /\ \A j \in 1..(i - 1) : d[j] > d[i] :
             d \in { dists } })

\* Math.min over the distances.
MinOf(dists) == TheOne({ d[FirstMinIndex(d)] : d \in { dists } })

\* The hard weight with every region at the minimum distance a winner.
HardWeightTies(c, region, allRegions) ==
    LET dists == Materialize([j \in 1..Len(allRegions) |->
                                 HslDistance(c, allRegions[j].centroidHsl)])
    IN  IF HslDistance(c, region.centroidHsl) = MinOf(dists) THEN W ELSE 0

\* Hard weight when the last region at the minimum distance wins.
HardWeightLast(c, region, allRegions) ==
    LET dists == Materialize([j \in 1..Len(allRegions) |->
                                 HslDistance(c, allRegions[j].centroidHsl)])
        last  == CHOOSE j \in 1..Len(allRegions) :
                    /\ dists[j] = MinOf(dists)
                    /\ \A k \in (j + 1)..Len(allRegions) : dists[k] > dists[j]
    IN  IF allRegions[last].id = region.id THEN W ELSE 0

\* Weight of one opaque pixel with colour c, hard mode.
HardWeight(c, region, allRegions) ==
    LET dists == Materialize([j \in 1..Len(allRegions) |->
                                 HslDistance(c, allRegions[j].centroidHsl)])
    IN  IF allRegions[FirstMinIndex(dists)].id = region.id THEN W ELSE 0

\* The soft weight without the division by the total weight.
SoftWeightUnnormalised(c, region, allRegions, sharpness) ==
    LET n       == Len(allRegions)
        dists   == Materialize([j \in 1..n |-> HslDistance(c, allRegions[j].centroidHsl)])
        minDist == MinOf(dists)
        fd      == FalloffDivisor(sharpness)
        wts     == Materialize([j \in 1..n |->
                      ExpNeg(RoundDiv((dists[j] - minDist) * (dists[j] - minDist), fd))])
        own     == { j \in 1..n : allRegions[j].id = region.id }
    IN  IF own = {} THEN 0 ELSE wts[CHOOSE j \in own : \A k \in own : k <= j]

\* Weight of one opaque pixel with colour c, soft mode.
SoftWeight(c, region, allRegions, sharpness) ==
    LET n       == Len(allRegions)
        fd      == FalloffDivisor(sharpness)
        own     == { j \in 1..n : allRegions[j].id = region.id }
        Weights(dists, minDist) ==
            Materialize([j \in 1..n |->
                ExpNeg(RoundDiv((dists[j] - minDist) * (dists[j] - minDist), fd))])
        Normalised(wts, totalWeight) ==
            LET regionWeight == IF own = {} THEN 0
                                ELSE wts[CHOOSE j \in own : \A k \in own : k <= j]
            IN  IF totalWeight > 0 THEN RoundDiv(regionWeight * W, totalWeight) ELSE 0
    IN  TheOne({ TheOne({ TheOne({ Normalised(wts, SumSeq(wts)) :
                                   wts \in { Weights(dists, minDist) } }) :
                          minDist \in { MinOf(dists) } }) :
                 dists \in { Materialize([j \in 1..n |->
                                 TheOne({ HslDistance(px, allRegions[j].centroidHsl) :
                                          px \in { c } })]) } })

\* The region mask without the alpha test.
GenerateRegionMaskAnyAlpha(img, region, allRegions, sharpness, hardMask) ==
    [i \in 1..Len(img) |->
        LET c == RgbToHsl(img[i].r, img[i].g, img[i].b)
        IN  IF hardMask THEN HardWeight(c, region, allRegions)
            ELSE SoftWeight(c, region, allRegions, sharpness)]

\* generateRegionMask: one weight in 0..W per pixel.
GenerateRegionMask(img, region, allRegions, sharpness, hardMask) ==
    [i \in 1..Len(img) |->
        IF img[i].a < AlphaThreshold THEN 0
        ELSE TheOne({ IF hardMask THEN HardWeight(c, region, allRegions)
                      ELSE SoftWeight(c, region, allRegions, sharpness) :
                      c \in { RgbToHsl(img[i].r, img[i].g, img[i].b) } })]

\* A shift record that moves the hue only.
RegionShiftHueOnly(region) ==
    [hueShift    |-> HexToHsl(region.targetColor).h - region.centroidHsl.h,
     satRatioNum |-> 1,
     satRatioDen |-> 1,
     lightShift  |-> 0,
     targetS     |-> HexToHsl(region.targetColor).s]

\* The shift record applyMultiRegionAdjustment precomputes for an active region.
RegionShift(region) ==
    LET Shift(t, c) ==
            [hueShift    |-> t.h - c.h,
             satRatioNum |-> IF c.s > 0 THEN t.s ELSE 1,
             satRatioDen |-> IF c.s > 0 THEN c.s ELSE 1,
             lightShift  |-> t.l - c.l,
             targetS     |-> t.s]
    IN  TheOne({ Shift(t, c) : t \in { HexToHsl(region.targetColor) },
                               c \in { region.centroidHsl } })

\* The candidate colour with the saturation set to the target's instead of
\* scaled by the ratio.
RegionCandidateTargetSaturation(c, shift) ==
    LET regionH == (c.h + shift.hueShift + 360 * Q) % (360 * Q)
        regionS == Clamp(shift.targetS, 0, 100 * Q)
        regionL == Clamp(c.l + shift.lightShift, 0, 100 * Q)
    IN  [hsl |-> Hsl(regionH, regionS, regionL), rgb |-> HslToRgb(regionH, regionS, regionL)]

\* The candidate colour of a pixel with colour c under one region's shift:
\* damped hue shift, multiplicative saturation, additive lightness.
RegionCandidate(c, shift) ==
    LET Candidate(px, sh) ==
            LET targetSatWeight   == Min2(W, RoundDiv(sh.targetS * W, 30 * Q))
                originalSatWeight == Min2(W, RoundDiv(px.s * W, 20 * Q))
                hueShiftWeight    == RoundDiv(targetSatWeight * originalSatWeight, W)
                effectiveHueShift == RoundDiv(sh.hueShift * hueShiftWeight, W)
                regionH == (px.h + effectiveHueShift + 360 * Q) % (360 * Q)
                regionS == Clamp(RoundDiv(px.s * sh.satRatioNum, sh.satRatioDen), 0, 100 * Q)
                regionL == Clamp(px.l + sh.lightShift, 0, 100 * Q)
            IN  TheOne({ [hsl |-> v, rgb |-> HslToRgb(v.h, v.s, v.l)] :
                         v \in { Hsl(regionH, regionS, regionL) } })
    IN  TheOne({ Candidate(px, sh) : px \in { c }, sh \in { shift } })

\* A filter that keeps every region, with or without a target colour.
ActiveRegionsUnfiltered(regions) == regions

\* The regions with a target colour, in the caller's order.
ActiveRegions(regions) == SelectSeq(regions, LAMBDA r : ~r.targetColor.null)

\* masks.get(id) / shifts.get(id): the Map keeps the entry set last for an id.
LastWithId(active, id) ==
    active[CHOOSE j \in 1..Len(active) :
              /\ active[j].id = id
              /\ \A k \in (j + 1)..Len(active) : active[k].id /= id]

\* Weights (units of 1/W) of the active regions at pixel i, as the loop reads them.
ActiveWeights(img, regions, sharpness, hardMask, i) ==
    LET active == ActiveRegions(regions)
    IN  Materialize([j \in 1..Len(active) |->
            GenerateRegionMask(img, LastWithId(active, active[j].id),
                               regions, sharpness, hardMask)[i]])

\* The candidate colour of the first active region, whatever the weights.
FirstCandidate(px, active, weights) ==
    LET cand == RegionCandidate(RgbToHsl(px.r, px.g, px.b),
                                RegionShift(LastWithId(active, active[1].id))).rgb
    IN  Pixel(cand.r, cand.g, cand.b, px.a)

\* The candidates laid over the input pixel by their weights: the input keeps
\* the share of weight the regions do not have.
BlendOverInput(px, active, weights) ==
    LET c    == RgbToHsl(px.r, px.g, px.b)
        used == { j \in 1..Len(active) : weights[j] * 1000 >= W }
        cand == Materialize([j \in 1..Len(active) |->
                    RegionCandidate(c, RegionShift(LastWithId(active, active[j].id))).rgb])
        totalWeight == SumSeq([j \in 1..Len(active) |-> IF j \in used THEN weights[j] ELSE 0])
        Acc(ch) == SumSeq([j \in 1..Len(active) |->
                              IF j \in used THEN cand[j][ch] * weights[j] ELSE 0])
    IN  Pixel(RoundDiv(Acc("r") + px.r * (W - totalWeight), W),
              RoundDiv(Acc("g") + px.g * (W - totalWeight), W),
              RoundDiv(Acc("b") + px.b * (W - totalWeight), W), px.a)

\* One opaque pixel of applyMultiRegionAdjustment.
BlendPixel(px, active, weights) ==
    LET Blend(p, regs, wts, c) ==
            LET used == { j \in 1..Len(regs) : wts[j] * 1000 >= W }
                Averaged(cand, totalWeight) ==
                    LET Acc(ch) == SumSeq([j \in 1..Len(regs) |->
                                      IF j \in used THEN cand[j][ch] * wts[j] ELSE 0])
                    IN  IF totalWeight > 0
                        THEN Pixel(RoundDiv(Acc("r"), totalWeight),
                                   RoundDiv(Acc("g"), totalWeight),
                                   RoundDiv(Acc("b"), totalWeight), p.a)
                        ELSE p
            IN  TheOne({ Averaged(cand, totalWeight) :
                    cand \in { Materialize([j \in 1..Len(regs) |->
                                  RegionCandidate(c, RegionShift(LastWithId(regs,
                                                                             regs[j].id))).rgb]) },
                    totalWeight \in { SumSeq([j \in 1..Len(regs) |->
                                          IF j \in used THEN wts[j] ELSE 0]) } })
    IN  TheOne({ TheOne({ Blend(p, regs, wts, c) : c \in { RgbToHsl(p.r, p.g, p.b) } }) :
                 p \in { px }, regs \in { active }, wts \in { weights } })

\* applyMultiRegionAdjustment
ApplyMultiRegionAdjustment(img, regions, sharpness, hardMask) ==
    LET active == ActiveRegions(regions)
    IN  IF Len(active) = 0 THEN img
        ELSE [i \in 1..Len(img) |->
                 IF img[i].a < AlphaThreshold THEN img[i]
                 ELSE BlendPixel(img[i], active,
                                 ActiveWeights(img, regions, sharpness, hardMask, i))]

----------------------------------------------------------------------------
(* ColorReplacementProcessor                                               *)

\* A ColorReplacement.
Replacement(id, source, target, tolerance, enabled) ==
    [id |-> id, sourceColor |-> source, targetColor |-> target,
     tolerance |-> tolerance, enabled |-> enabled]

\* colorDistance: the same metric as hslDistance, on six numbers.
ColorDistance(h1, s1, l1, h2, s2, l2) ==
    LET d0        == Abs(h1 - h2)
        hueDiff   == IF d0 > 180 * Q THEN 360 * Q - d0 ELSE d0
        hueTerm   == RoundDiv(hueDiff * (s1 + s2), 200 * Q)
        satDiff   == Abs(s1 - s2)
        lightDiff == Abs(l1 - l2)
    IN  Sqrt(hueTerm * hueTerm + satDiff * satDiff + lightDiff * lightDiff)

\* maxDistance = tolerance * 1.5
MaxDistance(tolerance) == RoundDiv(tolerance * 3 * Q, 2)

\* 1 - (distance / maxDistance) for distance <= maxDistance, units of 1/W;
\* 0/0 is NaN.
Strength(distance, maxDistance) ==
    IF maxDistance = 0 THEN NaN
    ELSE W - RoundDiv(distance * W, maxDistance)

\* Math.pow(strength, 0.5); the square root of NaN is NaN.
SelectionWeight(strength) ==
    IF IsNaN(strength) THEN NaN ELSE Sqrt(strength * W)

\* generateSelectionMask
GenerateSelectionMask(img, sourceColorHex, tolerance) ==
    LET src == HexToHsl(sourceColorHex)
        maxDistance == MaxDistance(tolerance)
    IN  [i \in 1..Len(img) |->
            IF img[i].a < AlphaThreshold THEN 0
            ELSE LET c == RgbToHsl(img[i].r, img[i].g, img[i].b)
                     distance == ColorDistance(c.h, c.s, c.l, src.h, src.s, src.l)
                 IN  IF distance <= maxDistance
                     THEN SelectionWeight(Strength(distance, maxDistance))
                     ELSE 0]

\* calculateAverageSourceColor: the weighted mean HSL of the opaque pixels within
\* tolerance of the source colour (circular mean for hue, weighted by
\* saturation), or the source colour itself when the total weight is 0.
\* With maxDistance = 0 a matching pixel has weight 0/0: every sum is NaN then
\* (nan |-> TRUE), and so is every shift derived from the result.
CalculateAverageSourceColor(img, sourceColorHex, tolerance) ==
    LET Distances(hsl, src) ==
            Materialize([i \in 1..Len(img) |->
                TheOne({ ColorDistance(c.h, c.s, c.l, src.h, src.s, src.l) :
                         c \in { hsl[i] } })])
        Matched(dist, maxDistance) ==
            { i \in 1..Len(img) : img[i].a >= AlphaThreshold /\ dist[i] <= maxDistance }
        Weights(dist, matched, maxDistance) ==
            Materialize([i \in 1..Len(img) |->
                IF i \in matched /\ maxDistance > 0
                THEN Strength(dist[i], maxDistance) ELSE 0])
        Mean(src, hsl, wt, totalWeight) ==
            LET sinH == SumSeq([i \in 1..Len(img) |->
                            RoundDiv(RoundDiv(SinHue(hsl[i].h) * wt[i], W) * hsl[i].s, 100 * Q)])
                cosH == SumSeq([i \in 1..Len(img) |->
                            RoundDiv(RoundDiv(CosHue(hsl[i].h) * wt[i], W) * hsl[i].s, 100 * Q)])
                totalS == SumSeq([i \in 1..Len(img) |-> RoundDiv(hsl[i].s * wt[i], W)])
                totalL == SumSeq([i \in 1..Len(img) |-> RoundDiv(hsl[i].l * wt[i], W)])
            IN  IF totalWeight = 0
                THEN [nan |-> FALSE, h |-> src.h, s |-> src.s, l |-> src.l]
                ELSE [nan |-> FALSE,
                      h |-> Atan2Hue(sinH, cosH),
                      s |-> RoundDiv(totalS * W, totalWeight),
                      l |-> RoundDiv(totalL * W, totalWeight)]
        Average(src, maxDistance, hsl, dist, matched) ==
            IF maxDistance = 0 /\ matched /= {}
            THEN [nan |-> TRUE, h |-> src.h, s |-> src.s, l |-> src.l]
            ELSE TheOne({ Mean(src, hsl, wt, SumSeq(wt)) :
                          wt \in { Weights(dist, matched, maxDistance) } })
    IN  TheOne({ TheOne({ TheOne({ Average(src, maxDistance, hsl, dist, matched) :
                                   matched \in { Matched(dist, maxDistance) } }) :
                          dist \in { Distances(hsl, src) } }) :
                 src \in { HexToHsl(sourceColorHex) },
                 maxDistance \in { MaxDistance(tolerance) },
                 hsl \in { Materialize([i \in 1..Len(img) |->
                               RgbToHsl(img[i].r, img[i].g, img[i].b)]) } })

\* The replacements applyReplacements works with: enabled, with a target colour.
ActiveReplacements(replacements) ==
    SelectSeq(replacements, LAMBDA r : r.enabled /\ Truthy(r.targetColor))

\* The per-replacement record applyReplacements precomputes (replacementData).
\* With a NaN average the comparison "avgSourceS > 0" is false, so satRatio is 1;
\* hueShift and lightShift are NaN.
ReplacementData(img, r) ==
    LET Data(avg, t, src) ==
            [replacement |-> r,
             sourceH |-> src.h, sourceS |-> src.s, sourceL |-> src.l,
             targetH |-> t.h, targetS |-> t.s, targetL |-> t.l,
             hueShift    |-> IF avg.nan THEN NaN ELSE t.h - avg.h,
             satRatioNum |-> IF ~avg.nan /\ avg.s > 0 THEN t.s ELSE 1,
             satRatioDen |-> IF ~avg.nan /\ avg.s > 0 THEN avg.s ELSE 1,
             lightShift  |-> IF avg.nan THEN NaN ELSE t.l - avg.l,
             maxDistance |-> MaxDistance(r.tolerance)]
    IN  TheOne({ Data(avg, t, src) :
                 avg \in { CalculateAverageSourceColor(img, r.sourceColor, r.tolerance) },
                 t   \in { HexToHsl(r.targetColor) },
                 src \in { HexToHsl(r.sourceColor) } })

\* The last entry of rds that has the colour c within its tolerance; 0 for none.
LastMatch(c, rds) ==
    LET ok == { j \in 1..Len(rds) :
                  ColorDistance(c.h, c.s, c.l, rds[j].sourceH, rds[j].sourceS, rds[j].sourceL)
                      <= rds[j].maxDistance }
    IN  IF ok = {} THEN 0 ELSE CHOOSE j \in ok : \A k \in ok : k <= j

\* The loop that finds bestMatch for a pixel of colour c: index into rds of the
\* entry in tolerance with the least distance, the earliest on equal
\* distance; 0 for no match.
BestMatch(c, rds) ==
    LET Best(dist, ok) ==
            IF ok = {} THEN 0
            ELSE CHOOSE j \in ok :
                    /\ \A k \in ok : dist[j] <= dist[k]
                    /\ \A k \in ok : k < j => dist[k] > dist[j]
    IN  TheOne({ TheOne({ Best(dist, ok) :
                          ok \in { { j \in 1..Len(rds) : dist[j] <= rds[j].maxDistance } } }) :
                 dist \in { Materialize([j \in 1..Len(rds) |->
                                TheOne({ ColorDistance(px.h, px.s, px.l,
                                                       rd.sourceH, rd.sourceS, rd.sourceL) :
                                         px \in { c }, rd \in { rds[j] } })]) } })

\* The fully shifted hue at every saturation.
ShiftedHue(c, rd) == (c.h + rd.hueShift + 360 * Q) % (360 * Q)

\* The hue a matched pixel of colour c gets: target hue below saturation 8,
\* blend toward the shifted hue up to 20, the shifted hue from 20 on.
ReplacementHue(c, rd) ==
    IF c.s < 8 * Q THEN rd.targetH
    ELSE IF c.s < 20 * Q
    THEN LET shiftedH == (c.h + rd.hueShift + 360 * Q) % (360 * Q)
             d0       == shiftedH - rd.targetH
             d1       == IF d0 > 180 * Q THEN d0 - 360 * Q ELSE d0
             hueDiff  == IF d1 < 0 - 180 * Q THEN d1 + 360 * Q ELSE d1
         IN  (rd.targetH + RoundDiv(hueDiff * (c.s - 8 * Q), 12 * Q) + 360 * Q) % (360 * Q)
    ELSE (c.h + rd.hueShift + 360 * Q) % (360 * Q)

\* Math.round(r + (adj - r) * blend), blend in units of 1/W.
BlendChannel(orig, adj, blend) == RoundDiv(orig * W + (adj - orig) * blend, W)

\* One opaque pixel of applyReplacements.
ReplacePixel(px, rds) ==
    LET Blended(p, adj, blend) ==
            Pixel(BlendChannel(p.r, adj.r, blend),
                  BlendChannel(p.g, adj.g, blend),
                  BlendChannel(p.b, adj.b, blend), p.a)
        Adjusted(p, c, rd, bestStrength) ==
            IF IsNaN(bestStrength) \/ bestStrength <= 0 THEN p
            ELSE TheOne({ Blended(p, HslToRgb(newH, newS, newL), blend) :
                          newS \in { Clamp(RoundDiv(c.s * rd.satRatioNum, rd.satRatioDen),
                                           0, 100 * Q) },
                          newL \in { Clamp(c.l + rd.lightShift, 0, 100 * Q) },
                          newH \in { ReplacementHue(c, rd) },
                          blend \in { Pow07(bestStrength) } })
        Replaced(p, c, rd) ==
            TheOne({ Adjusted(p, c, rd, Strength(distance, rd.maxDistance)) :
                     distance \in { ColorDistance(c.h, c.s, c.l,
                                                  rd.sourceH, rd.sourceS, rd.sourceL) } })
        Matched(p, c, j) == IF j = 0 THEN p ELSE Replaced(p, c, rds[j])
    IN  TheOne({ TheOne({ Matched(p, c, j) : j \in { BestMatch(c, rds) } }) :
                 p \in { px }, c \in { RgbToHsl(px.r, px.g, px.b) } })

\* applyReplacements
ApplyReplacements(img, replacements) ==
    LET active == ActiveReplacements(replacements)
        Loop(rds) == Materialize([i \in 1..Len(img) |->
                        IF img[i].a < AlphaThreshold THEN img[i]
                        ELSE ReplacePixel(img[i], rds)])
    IN  IF Len(active) = 0 THEN img
        ELSE TheOne({ Loop(rds) : rds \in { Materialize([j \in 1..Len(active) |->
                                                ReplacementData(img, active[j])]) } })

----------------------------------------------------------------------------
(* Inputs of the calls                                                     *)

\* Target colours of the global adjustment, besides the image's own dominant colour.
TargetRgbs == { Rgb(255, 0, 0), Rgb(30, 200, 90), Rgb(128, 128, 128) }

\* The target colour regions and replacements are given here.
TargetHex == RgbToHex(30, 200, 90)

\* The empty string.
EmptyHex == HexStr(FALSE, <<>>)

\* Source colours of replacements: two palette colours, and a dark red that is
\* at distance 30 = 20 * 1.5 from the palette's red.
SourceHexes == { RgbToHex(255, 0, 0), RgbToHex(100, 150, 200), RgbToHex(102, 0, 0) }

\* Tolerances of replacements, in 0..100.
Tolerances == { 0, 20, 100 }

\* Centroids of caller-supplied regions.
Centroids == { RgbToHsl(255, 0, 0), RgbToHsl(100, 150, 200), RgbToHsl(150, 130, 120) }

\* Smallest and largest number of regions of a caller-supplied region set.
MinRegions == 2

MaxRegions == 3

\* `region-${index}`
RegionId(index) == <<"region", index>>

\* Centroid lists of region sets: any centroids, equal ones too.
CentroidLists == UNION { [1..k -> Centroids] : k \in MinRegions..MaxRegions }

\* The region set with these centroids and target colours, ids by position.
RegionsOf(cs, ts) == [j \in 1..Len(cs) |-> Region(RegionId(j - 1), cs[j], ts[j], 0)]

\* Region sets as detection returns them: distinct ids, no target colour yet.
DetectedRegionSets ==
    { RegionsOf(cs, [j \in 1..Len(cs) |-> NoColor]) : cs \in CentroidLists }

\* Region sets given to the compositor: any subset of the regions carries the
\* target colour; two regions may have equal centroids, more have distinct ones.
RegionSets ==
    UNION { { RegionsOf(cs, ts) : ts \in [1..Len(cs) -> {NoColor, TargetHex}] } :
            cs \in { c \in CentroidLists :
                        \/ Len(c) = MinRegions
                        \/ \A i, j \in 1..Len(c) : i /= j => c[i] /= c[j] } }

\* Mask modes: hard, or soft with a sharpness in percent (the slider value;
\* the processor gets value / 100).
MaskModes ==
    { [hardMask |-> TRUE, sharpness |-> 85],
      [hardMask |-> FALSE, sharpness |-> 0],
      [hardMask |-> FALSE, sharpness |-> 100] }

\* Replacements a call may be given: active ones for every source colour and
\* tolerance, a disabled one, and an enabled one with an empty target.
ReplacementChoices ==
    { [sourceColor |-> src, targetColor |-> TargetHex, tolerance |-> tol, enabled |-> TRUE] :
        src \in SourceHexes, tol \in Tolerances }
    \cup { [sourceColor |-> RgbToHex(255, 0, 0), targetColor |-> TargetHex,
            tolerance |-> 100, enabled |-> FALSE],
           [sourceColor |-> RgbToHex(255, 0, 0), targetColor |-> EmptyHex,
            tolerance |-> 100, enabled |-> TRUE] }

\* Largest number of replacements of a call.
MaxReplacements == 2

ReplacementLists ==
    UNION { { [j \in 1..n |-> Replacement(<<"replacement", j>>, c[j].sourceColor,
                                         c[j].targetColor, c[j].tolerance, c[j].enabled)] :
                c \in [1..n -> ReplacementChoices] } :
            n \in 1..MaxReplacements }

\* Region ids a caller may name: those of a region set of any size, and one
\* more, which no region set has.
CallerRegionIds == { RegionId(index) : index \in 0..MaxRegions }

\* Region indices a caller may name, counted from 0: -1 and one past the
\* largest list are outside every list.
CallerRegionIndices == -1..MaxRegions

\* this.regions of the adjuster when a target colour is set: the region sets
\* of the smallest size with two different centroids, any targets already
\* chosen.
AdjusterRegionSets ==
    { regs \in RegionSets :
        Len(regs) = MinRegions /\ regs[1].centroidHsl /= regs[2].centroidHsl }

\* Colour strings that do not match the pattern of hexToRgb: '#fff',
\* '#gg0000' and '#1ec85'.
InvalidHexes ==
    { HexStr(TRUE, <<15, 15, 15>>),
      HexStr(TRUE, <<16, 16, 0, 0, 0, 0>>),
      HexStr(TRUE, <<1, 14, 12, 8, 5>>) }

\* Colour strings a caller may give: a colour with and without '#', the
\* strings above, the mid-gray, the empty string.
CallerHexes ==
    InvalidHexes \cup { TargetHex, HexStr(FALSE, <<15, 15, 0, 0, 0, 0>>),
                        RgbToHex(128, 128, 128), EmptyHex }

\* Region sets whose target colours are such strings: the two-region sets with
\* different centroids, the first region carrying the string.
HexRegionSets ==
    { RegionsOf(cs, <<t, NoColor>>) :
        cs \in { c \in CentroidLists : Len(c) = MinRegions /\ c[1] /= c[2] },
        t \in CallerHexes \ { EmptyHex } }

\* Replacement lists with such strings as source and target colour.
HexReplacementLists ==
    { << Replacement(<<"replacement", 1>>, src, tgt, 100, TRUE) >> :
        src \in CallerHexes \ { EmptyHex }, tgt \in CallerHexes }

\* A fully opaque two-half image of the given width and height, row by row:
\* the left half of every row pure red, the right half pure blue.
TwoHalfImage(width, height) ==
    [p \in 1..(width * height) |->
        IF (p - 1) % width < width \div 2 THEN Pixel(255, 0, 0, 255)
                                            ELSE Pixel(0, 0, 255, 255)]

\* Widths and heights of the two-half images.
TwoHalfWidths == { 4, 8, 16 }

TwoHalfHeights == { 1, 2, 3 }

TwoHalfImages == { TwoHalfImage(w, h) : w \in TwoHalfWidths, h \in TwoHalfHeights }

\* Lengths of a short first run: the first run holds one sampled pixel, the
\* second run the other three.
ShortRunLens == { 2, 4 }

\* Buffers of two runs of which the first is short.
UnevenImages ==
    { [i \in 1..ImgLen |-> IF i <= n THEN t[1] ELSE t[2]] :
        n \in ShortRunLens, t \in [1..NumBands -> Palette] }

\* Pixels with hues mirrored about 0 (12 and 348 degrees, 30.12 and 329.88
\* degrees), and two with hues away from 0.
MirrorPalette ==
    { Pixel(5, 1, 0, 255),
      Pixel(5, 0, 1, 255),
      Pixel(255, 128, 0, 255),
      Pixel(255, 0, 128, 255),
      Pixel(0, 255, 0, 255),
      Pixel(100, 150, 200, 255) }

\* Pixels of a run of a buffer of three runs.
MirrorRunLen == 4

\* Buffers of three runs of pixels of the mirror palette: the first two runs
\* hold one sampled pixel each, the third two.
MirrorImages ==
    { [i \in 1..ImgLen |-> t[Min2((i - 1) \div MirrorRunLen, 2) + 1]] :
        t \in [1..3 -> MirrorPalette] }

\* Channel values the conversions are called with.
Channels == { 0, 1, 2, 5, 64, 127, 128, 129, 200, 253, 254, 255 }

\* Hues the conversions and distances are called with, in degrees.
HueDegrees == { 0, 1, 10, 30, 90, 179, 180, 181, 200, 240, 350, 359 }

\* Saturations and lightnesses the conversions are called with, in percent.
Percents == { 0, 1, 50, 99, 100 }

\* Colours the distances are called with: full and half saturation.
DistanceColours ==
    { Hsl(h * Q, s * Q, 50 * Q) : h \in HueDegrees, s \in { 50, 100 } }

\* Pixels of the buffers the compositor is called on with the targets below:
\* a gray, a saturated, a low-saturation and a mid-saturation colour, and a
\* pixel below the alpha threshold.
BlendPalette ==
    { Pixel(128, 128, 128, 255),
      Pixel(255, 0, 0, 255),
      Pixel(150, 130, 120, 255),
      Pixel(100, 150, 200, 255),
      Pixel(200, 60, 60, 127) }

\* Buffers of two pixels.
BlendImages ==
    { <<p, q>> : p \in BlendPalette,
                 q \in { Pixel(128, 128, 128, 255), Pixel(200, 60, 60, 127) } }

\* Centroids: the colours of the palette's opaque pixels but one, a gray 20
\* lightness units above the palette's gray, and an orange-red of hue 4.9.
BlendCentroids ==
    { RgbToHsl(128, 128, 128), RgbToHsl(179, 179, 179), RgbToHsl(255, 0, 0),
      RgbToHsl(150, 130, 120), RgbToHsl(255, 21, 0) }

\* Target colours: a green, a red of hue 355, a gray, a colour of saturation 20.
BlendTargets ==
    { TargetHex, RgbToHex(255, 0, 21), RgbToHex(128, 128, 128), RgbToHex(153, 102, 102) }

\* Region sets of two regions, each with or without a target colour.
BlendRegionSets ==
    { RegionsOf(<<c1, c2>>, <<t1, t2>>) :
        c1 \in BlendCentroids, c2 \in BlendCentroids,
        t1 \in BlendTargets \cup {NoColor}, t2 \in BlendTargets \cup {NoColor} }

\* Pixels of the buffers replacements with different targets are applied to:
\* saturations 100, 79, 12.5 (between 8 and 20), 5.1 (below 8) and 0, and a
\* pixel below the alpha threshold.
ReplacePalette ==
    { Pixel(255, 0, 0, 255),
      Pixel(230, 40, 40, 255),
      Pixel(150, 130, 120, 255),
      Pixel(135, 128, 122, 255),
      Pixel(128, 128, 128, 255),
      Pixel(200, 60, 60, 127) }

\* Buffers of two pixels.
ReplaceImages ==
    { <<p, q>> : p \in ReplacePalette,
                 q \in { Pixel(230, 40, 40, 255), Pixel(135, 128, 122, 255) } }

\* Source colours: a saturated, a low-saturation and a gray colour of the palette.
ReplaceSources == { RgbToHex(255, 0, 0), RgbToHex(150, 130, 120), RgbToHex(128, 128, 128) }

\* Target colours: a green and a blue.
ReplaceTargets == { TargetHex, RgbToHex(40, 60, 220) }

\* Replacements of a call: active ones for every source, target and tolerance,
\* a disabled one, and an enabled one with an empty target.
ReplaceChoices ==
    { [sourceColor |-> src, targetColor |-> t, tolerance |-> tol, enabled |-> TRUE] :
        src \in ReplaceSources, t \in ReplaceTargets, tol \in Tolerances }
    \cup { [sourceColor |-> RgbToHex(255, 0, 0), targetColor |-> TargetHex,
            tolerance |-> 100, enabled |-> FALSE],
           [sourceColor |-> RgbToHex(255, 0, 0), targetColor |-> EmptyHex,
            tolerance |-> 100, enabled |-> TRUE] }

\* Lists of up to MaxReplacements of them, ids by position.
ReplaceLists ==
    UNION { { [j \in 1..n |-> Replacement(<<"replacement", j>>, c[j].sourceColor,
                                         c[j].targetColor, c[j].tolerance, c[j].enabled)] :
                c \in [1..n -> ReplaceChoices] } :
            n \in 1..MaxReplacements }

\* Centroids for ties: two at lightness 40 and 60, each 10 from pure red
\* (0, 100, 50), and the colours of two palette pixels.
TieCentroids ==
    { Hsl(0, 100 * Q, 40 * Q), Hsl(0, 100 * Q, 60 * Q),
      RgbToHsl(255, 0, 0), RgbToHsl(128, 128, 128) }

\* Region sets without targets over these centroids, equal ones too.
TieRegionSets ==
    { RegionsOf(cs, [j \in 1..Len(cs) |-> NoColor]) :
        cs \in UNION { [1..k -> TieCentroids] : k \in MinRegions..MaxRegions } }

\* Buffers of two opaque pixels with a gray one: black, mid and light gray
\* before and after pure red, and mid gray after a low-saturation colour.
GrayImages ==
    { <<Pixel(v, v, v, 255), Pixel(255, 0, 0, 255)>> : v \in {0, 128, 200} }
    \cup { <<Pixel(255, 0, 0, 255), Pixel(v, v, v, 255)>> : v \in {0, 128, 200} }
    \cup { <<Pixel(150, 130, 120, 255), Pixel(128, 128, 128, 255)>> }

\* Buffers whose sampled pixels (every fourth) are one colour at the first
\* sample and another at the later ones, with a third pixel, opaque or not,
\* at the places the sampling passes over.
SparseImages ==
    { [i \in 1..ImgLen |->
          IF (i - 1) % SampleStride /= 0 THEN between
          ELSE IF i = 1 THEN t[1] ELSE t[2]] :
        t \in [1..NumBands -> Palette],
        between \in { Pixel(255, 0, 0, 255), Pixel(200, 60, 60, 127) } }

----------------------------------------------------------------------------
(* MultiRegionTextureAdjuster and ColorReplacementAdjuster: the debounce    *)
(* timer                                                                    *)

\* The state when no adjuster is in use.
NoAdjuster == [kind |-> "none"]

\* adjustmentDebounceTimer / debounceTimer: null.
NoTimer == 0

\* Largest number of timers a run sets.
MaxTimers == 4

\* The buffer of the adjusters' original canvas.
DebounceImages == { <<Pixel(255, 0, 0, 255), Pixel(128, 128, 128, 255)>> }

\* Target colours the user picks.
DebounceTargets == { TargetHex, RgbToHex(40, 60, 220) }

\* Values of the sharpness slider, in percent.
DebounceSharpness == { 0, 100 }

\* Values of the tolerance slider.
DebounceTolerances == { 20, 100 }

\* A MultiRegionTextureAdjuster after detectRegions: two regions without
\* targets, default sharpness, soft masks, no timer set.  pending is the set
\* of the window's active timers that this adjuster set, nextTimer the handle
\* the next setTimeout returns; runs counts the timer callbacks that ran and
\* bursts the scheduling calls made while no timer was pending.
NewMultiRegionTextureAdjuster ==
    [kind |-> "MultiRegionTextureAdjuster",
     regions |-> RegionsOf(<<RgbToHsl(255, 0, 0), RgbToHsl(128, 128, 128)>>,
                           <<NoColor, NoColor>>),
     replacements |-> <<>>,
     maskSharpness |-> 85, useHardMasks |-> FALSE,
     timer |-> NoTimer, pending |-> {}, nextTimer |-> 1, runs |-> 0, bursts |-> 0]

\* A ColorReplacementAdjuster with two replacements as addReplacement and a
\* click on the canvas leave them: target colour equal to the sampled source.
NewColorReplacementAdjuster ==
    [kind |-> "ColorReplacementAdjuster",
     regions |-> <<>>,
     replacements |-> <<Replacement(<<"replacement", 1>>, RgbToHex(255, 0, 0),
                                    RgbToHex(255, 0, 0), 30, TRUE),
                        Replacement(<<"replacement", 2>>, RgbToHex(128, 128, 128),
                                    RgbToHex(128, 128, 128), 30, TRUE)>>,
     maskSharpness |-> 85, useHardMasks |-> FALSE,
     timer |-> NoTimer, pending |-> {}, nextTimer |-> 1, runs |-> 0, bursts |-> 0]

\* Scheduling without the clearTimeout: the earlier timer stays pending.
ScheduleWithoutClear(a) ==
    [a EXCEPT !.pending = a.pending \cup {a.nextTimer},
              !.timer = a.nextTimer,
              !.nextTimer = a.nextTimer + 1,
              !.bursts = IF a.pending = {} THEN a.bursts + 1 ELSE a.bursts]

\* scheduleAdjustment / scheduleApply: clearTimeout of the handle kept, if it
\* is not null (a handle that has fired is no longer active and clearing it
\* does nothing), then setTimeout, whose handle is kept.
Schedule(a) ==
    [a EXCEPT !.pending = (IF a.timer /= NoTimer THEN a.pending \ {a.timer} ELSE a.pending)
                              \cup {a.nextTimer},
              !.timer = a.nextTimer,
              !.nextTimer = a.nextTimer + 1,
              !.bursts = IF a.pending = {} THEN a.bursts + 1 ELSE a.bursts]

\* The timer callback has run: the handle leaves the window's active timers;
\* the field that holds it is not reset.
Fired(a, t) == [a EXCEPT !.pending = a.pending \ {t}, !.runs = a.runs + 1]

\* this.regions.some(r => r.targetColor !== null)
SomeTarget(regions) == \E j \in 1..Len(regions) : ~regions[j].targetColor.null

\* applyAdjustments: the adjusted canvas after it, given the canvas before.
ApplyAdjustments(a, img, canvas) ==
    IF Len(a.regions) = 0 THEN canvas
    ELSE ApplyMultiRegionAdjustment(img, a.regions, a.maskSharpness, a.useHardMasks)

\* The adjuster's applyReplacements: the result canvas after it; clearResult
\* fills it with #1e1e1e when there is no replacement.
AdjusterApplyReplacements(a, img) ==
    IF Len(a.replacements) = 0 THEN [i \in 1..Len(img) |-> Pixel(30, 30, 30, 255)]
    ELSE ApplyReplacements(img, a.replacements)

\* this.replacements.filter(r => r.id !== id), for the id at position j.
WithoutReplacement(replacements, j) ==
    SelectSeq(replacements, LAMBDA r : r.id /= replacements[j].id)

----------------------------------------------------------------------------
(* MultiRegionImageProcessor.detectColorRegions: k-means over HSL samples  *)

\* maxIterations of the k-means loop.
MaxIterations == 10

\* A loop that leaves only on convergence.
LoopExitsOnConvergence(iterations, converged) == converged

\* Whether the k-means loop is left after a pass, iterations being the passes
\* made so far: "if (converged) break", or "i < maxIterations" fails.
LoopExits(iterations, converged) == converged \/ iterations >= MaxIterations

\* A PixelHsl: a colour and the index of the pixel it was sampled from.
PixelHsl(c, index) == [h |-> c.h, s |-> c.s, l |-> c.l, index |-> index]

\* The sampling without the alpha test: every fourth pixel is kept.
SamplePixelsAnyAlpha(img) ==
    LET n == (Len(img) + SampleStride - 1) \div SampleStride
    IN  Materialize([k \in 1..n |->
            TheOne({ PixelHsl(RgbToHsl(px.r, px.g, px.b), (k - 1) * SampleStride) :
                     px \in { img[(k - 1) * SampleStride + 1] } })])

\* samplePixelsAsHsl: the HSL colours of every 4th pixel of the buffer that
\* has alpha >= 128, in buffer order.
SamplePixelsAsHsl(img) ==
    LET n    == (Len(img) + SampleStride - 1) \div SampleStride
        idxs == [k \in 1..n |-> (k - 1) * SampleStride + 1]
    IN  TheOne({ Materialize([k \in 1..Len(kept) |->
                     TheOne({ PixelHsl(RgbToHsl(px.r, px.g, px.b), kept[k] - 1) :
                              px \in { img[kept[k]] } })]) :
                 kept \in { SelectSeq(idxs, LAMBDA i : ~(img[i].a < AlphaThreshold)) } })

\* Distance of a pixel to the nearest of the centroids chosen so far.
MinDistToCentroid(pixel, centroids) ==
    MinOf(Materialize([j \in 1..Len(centroids) |-> HslDistance(pixel, centroids[j])]))

\* The first pixel at the greatest distance from the centroids chosen so far
\* ("minDistToCentroid > maxDist", starting from maxDist = -1).
FarthestPixel(pixels, centroids) ==
    LET d == Materialize([i \in 1..Len(pixels) |-> MinDistToCentroid(pixels[i], centroids)])
        best == CHOOSE i \in 1..Len(pixels) :
                    /\ \A j \in 1..Len(pixels) : d[j] <= d[i]
                    /\ \A j \in 1..(i - 1) : d[j] < d[i]
    IN  pixels[best]

RECURSIVE GrowCentroids(_, _, _)
\* The loop "for (let i = 1; i < k; i++)" of initializeCentroids.
GrowCentroids(pixels, centroids, k) ==
    IF Len(centroids) >= k THEN centroids
    ELSE GrowCentroids(pixels, Materialize(Append(centroids, FarthestPixel(pixels, centroids))), k)

\* initializeCentroids, firstIdx being Math.floor(Math.random() * pixels.length) + 1.
InitializeCentroids(pixels, k, firstIdx) == GrowCentroids(pixels, <<pixels[firstIdx]>>, k)

\* Every pixel assigned to the first centroid.
AssignPixelsToFirst(pixels, centroids) == Materialize([i \in 1..Len(pixels) |-> 1])

\* assignPixelsToCentroids: per pixel the first centroid at the least distance.
AssignPixelsToCentroids(pixels, centroids) ==
    Materialize([i \in 1..Len(pixels) |->
        FirstMinIndex(Materialize([j \in 1..Len(centroids) |->
                                      HslDistance(pixels[i], centroids[j])]))])

\* The pixels assigned to cluster j.
ClusterOf(assignments, j) == { i \in 1..Len(assignments) : assignments[i] = j }

\* The clusters no pixel is assigned to.
EmptyClusters(assignments, k) == { j \in 1..k : ClusterOf(assignments, j) = {} }

\* The sines of the hues of a cluster cancel: their exact sum is 0 although
\* they are not all 0, and the cosines sum to more than 0.  In double
\* arithmetic the sum hSin[cluster] is then 0 or a last-bit residue of either
\* sign, depending on the order of the pixels and on Math.sin.
SinesCancel(pixels, members) ==
    /\ members /= {}
    /\ \E i \in members : SinHue(pixels[i].h) /= 0
    /\ SumSeq([i \in 1..Len(pixels) |->
                  IF i \in members THEN SinHue(pixels[i].h) ELSE 0]) = 0
    /\ SumSeq([i \in 1..Len(pixels) |->
                  IF i \in members THEN CosHue(pixels[i].h) ELSE 0]) > 0

\* The clusters whose sines cancel.
CancellingClusters(pixels, assignments, k) ==
    { j \in 1..k : SinesCancel(pixels, ClusterOf(assignments, j)) }

\* The sign of the residue of a sum of cancelling sines: 0 or positive, or
\* negative.
ResidueSigns == { 0, -1 }

\* recalculateCentroids: circular mean of hue, arithmetic mean of saturation
\* and lightness; an empty cluster j takes the pixel of random index reseed[j].
\* The mean hue of pixels of one hue is that hue here; in double arithmetic
\* it can differ from it in the last bits, which decides the tie between a
\* mean centroid and a reseeded copy of the same colour.  Where the sines of a
\* cluster cancel, lastBits[j] is the sign of the residue: with a negative
\* residue Math.atan2 gives an angle just below 0 and "avgH += 360" rounds to
\* 360 exactly.
RecalculateCentroids(pixels, assignments, k, reseed, lastBits) ==
    Materialize([j \in 1..k |->
        TheOne({
            IF Cardinality(members) = 0 THEN pixels[reseed[j]]
            ELSE TheOne({ PixelHsl(Hsl(IF j \in DOMAIN lastBits /\ lastBits[j] < 0
                                       THEN 360 * Q
                                       ELSE Atan2Hue(sum.hSin, sum.hCos),
                                       RoundDiv(sum.s, sum.count),
                                       RoundDiv(sum.l, sum.count)), 0) :
                          sum \in { [count |-> Cardinality(members),
                                     hSin |-> SumSeq([i \in 1..Len(pixels) |->
                                        IF i \in members THEN SinHue(pixels[i].h) ELSE 0]),
                                     hCos |-> SumSeq([i \in 1..Len(pixels) |->
                                        IF i \in members THEN CosHue(pixels[i].h) ELSE 0]),
                                     s |-> SumSeq([i \in 1..Len(pixels) |->
                                        IF i \in members THEN pixels[i].s ELSE 0]),
                                     l |-> SumSeq([i \in 1..Len(pixels) |->
                                        IF i \in members THEN pixels[i].l ELSE 0])] } }) :
            members \in { ClusterOf(assignments, j) } })])

\* The convergence test of the loop: no centroid moved by more than 1.
Converged(centroids, newCentroids) ==
    \A j \in 1..Len(centroids) : ~(HslDistance(centroids[j], newCentroids[j]) > Q)

\* counts[assignment]++ over the final assignment.
CountAssigned(assignments, k) ==
    [j \in 1..k |-> Cardinality(ClusterOf(assignments, j))]

\* The regions in the order of their centroids.
LeaveInCentroidOrder(regions) == regions

\* regions.sort((a, b) => b.pixelCount - a.pixelCount): descending, stable.
SortByPixelCount(regions) ==
    LET Rank(i) == Cardinality({ j \in 1..Len(regions) :
                        \/ regions[j].pixelCount > regions[i].pixelCount
                        \/ regions[j].pixelCount = regions[i].pixelCount /\ j < i }) + 1
    IN  [p \in 1..Len(regions) |-> regions[CHOOSE i \in 1..Len(regions) : Rank(i) = p]]

\* A centroid as it is, with the index of the pixel it was copied from.
CentroidWithIndex(centroid) == centroid

\* centroidHsl: [centroid.h, centroid.s, centroid.l].
CentroidHsl(centroid) == Hsl(centroid.h, centroid.s, centroid.l)

----------------------------------------------------------------------------
(* MultiRegionTextureAdjuster: the target colours of this.regions          *)

\* Whether some region of the list has this id.
HasRegionId(regions, regionId) == \E j \in 1..Len(regions) : regions[j].id = regionId

\* this.regions.find(r => r.id === regionId): index of the first region with
\* the id, 0 for undefined.
FindRegion(regions, regionId) ==
    IF HasRegionId(regions, regionId)
    THEN CHOOSE j \in 1..Len(regions) :
            /\ regions[j].id = regionId
            /\ \A k \in 1..(j - 1) : regions[k].id /= regionId
    ELSE 0

\* setRegionTargetColor: this.regions after the call; nothing is done when
\* find returns undefined.
SetRegionTargetColor(regions, regionId, color) ==
    LET j == FindRegion(regions, regionId)
    IN  IF j /= 0 THEN [regions EXCEPT ![j].targetColor = color] ELSE regions

\* clearRegionTargetColor: the same with null.
ClearRegionTargetColor(regions, regionId) ==
    LET j == FindRegion(regions, regionId)
    IN  IF j /= 0 THEN [regions EXCEPT ![j].targetColor = NoColor] ELSE regions

\* setTargetColorForRegion: regionIndex counts from 0; an index outside the
\* list returns at once.
SetTargetColorForRegion(regions, regionIndex, hexColor) ==
    IF regionIndex < 0 \/ regionIndex >= Len(regions) THEN regions
    ELSE [regions EXCEPT ![regionIndex + 1].targetColor = hexColor]

----------------------------------------------------------------------------
(* Buffers and lists after a call                                          *)

\* The caller's buffer and lists after a call that takes every buffer to
\* zero length (as a transfer of the ArrayBuffer does).
Detached(img, inputs, out) ==
    [imageData |-> <<>>, inputs |-> inputs, returned |-> out, fresh |-> FALSE]

\* The caller's pixel buffer and lists after a call, and what it returns: the
\* processors read imageData.data and the lists, and write only to the
\* ImageData, Float32Array or array they allocate themselves
\* (new ImageData(imageData.width, imageData.height), centroids.map(...)).
Allocated(img, inputs, out) ==
    [imageData |-> img, inputs |-> inputs, returned |-> Materialize(out), fresh |-> TRUE]

----------------------------------------------------------------------------
(* State: the pixel buffer in use, the call made on it, its result, the   *)
(* detection call that returned before it, and the adjuster component     *)
(* with its debounce timers                                                *)

VARIABLES image, call, result, previous, adjuster

vars == <<image, call, result, previous, adjuster>>

Init ==
    /\ image \in Images
    /\ call = [op |-> "none"]
    /\ result = <<>>
    /\ previous = [op |-> "none"]
    /\ adjuster = NoAdjuster

CallGetDominantColor ==
    /\ call.op = "none"
    /\ call' = [op |-> "getDominantColor"]
    /\ result' = GetDominantColor(image)
    /\ UNCHANGED <<image, previous, adjuster>>

CallApplyHslAdjustment ==
    /\ call.op = "none"
    /\ \E t \in TargetRgbs \cup { GetDominantColor(image) } :
        /\ call.op = "none"
        /\ \E f \in { Allocated(image, <<>>, ApplyHslAdjustment(image, t)) } :
               /\ call' = [op |-> "applyHslAdjustment", targetRgb |-> t,
                           fresh |-> f.fresh]
               /\ image' = f.imageData
               /\ result' = f.returned
        /\ UNCHANGED <<previous, adjuster>>

CallGenerateRegionMask ==
    /\ call.op = "none"
    /\ \E regs \in DetectedRegionSets, mode \in MaskModes :
        \E j \in 1..Len(regs) :
            /\ call.op = "none"
            /\ \E f \in { Allocated(image, regs,
                                     GenerateRegionMask(image, regs[j], regs,
                                                        mode.sharpness, mode.hardMask)) } :
                   /\ call' = [op |-> "generateRegionMask", region |-> j,
                               allRegions |-> regs, sharpness |-> mode.sharpness,
                               hardMask |-> mode.hardMask, after |-> f.inputs]
                   /\ image' = f.imageData
                   /\ result' = f.returned
            /\ UNCHANGED <<previous, adjuster>>

CallApplyMultiRegionAdjustment ==
    /\ call.op = "none"
    /\ \E regs \in RegionSets, mode \in MaskModes :
        /\ call.op = "none"
        /\ \E f \in { Allocated(image, regs,
                                 ApplyMultiRegionAdjustment(image, regs, mode.sharpness,
                                                            mode.hardMask)) } :
               /\ call' = [op |-> "applyMultiRegionAdjustment", regions |-> regs,
                           sharpness |-> mode.sharpness, hardMask |-> mode.hardMask,
                           after |-> f.inputs, fresh |-> f.fresh]
               /\ image' = f.imageData
               /\ result' = f.returned
        /\ UNCHANGED <<previous, adjuster>>

CallGenerateSelectionMask ==
    /\ call.op = "none"
    /\ \E src \in SourceHexes, tol \in Tolerances :
        /\ call.op = "none"
        /\ \E f \in { Allocated(image, <<>>, GenerateSelectionMask(image, src, tol)) } :
               /\ call' = [op |-> "generateSelectionMask", sourceColorHex |-> src,
                           tolerance |-> tol]
               /\ image' = f.imageData
               /\ result' = f.returned
        /\ UNCHANGED <<previous, adjuster>>

CallApplyReplacements ==
    /\ call.op = "none"
    /\ \E reps \in ReplacementLists :
        /\ call.op = "none"
        /\ \E f \in { Allocated(image, reps, ApplyReplacements(image, reps)) } :
               /\ call' = [op |-> "applyReplacements", replacements |-> reps,
                           after |-> f.inputs, fresh |-> f.fresh]
               /\ image' = f.imageData
               /\ result' = f.returned
        /\ UNCHANGED <<previous, adjuster>>

\* detectColorRegions up to the k-means loop: sample, return [] without
\* samples, else draw the first centroid at random and choose the others.
DetectStart ==
    /\ call.op = "none"
    /\ \E k \in MinRegions..MaxRegions :
        LET pixels == SamplePixelsAsHsl(image)
        IN  /\ call.op = "none"
            /\ IF Len(pixels) = 0
               THEN /\ call' = [op |-> "detectColorRegions", regionCount |-> k,
                                pc |-> "done", centroids |-> <<>>, iterations |-> 0]
                    /\ result' = <<>>
               ELSE \E firstIdx \in 1..Len(pixels) :
                    /\ call' = [op |-> "detectColorRegions", regionCount |-> k,
                                pc |-> "iterate",
                                centroids |-> InitializeCentroids(pixels, k, firstIdx),
                                iterations |-> 0]
                    /\ result' = <<>>
            /\ UNCHANGED <<image, previous, adjuster>>

\* One pass of the k-means loop: assign, recalculate (an empty cluster is
\* reseeded with a random pixel, a sum of cancelling sines has a residue of
\* either sign), test convergence, update the centroids.
DetectPass ==
    /\ call.op = "detectColorRegions"
    /\ call.pc = "iterate"
    /\ \E pixels \in { SamplePixelsAsHsl(image) } :
       \E assignments \in { AssignPixelsToCentroids(pixels, call.centroids) } :
       \E reseed \in [EmptyClusters(assignments, call.regionCount) -> 1..Len(pixels)] :
       \E lastBits \in [CancellingClusters(pixels, assignments, call.regionCount)
                          -> ResidueSigns] :
       \E newCentroids \in { RecalculateCentroids(pixels, assignments,
                                                  call.regionCount, reseed, lastBits) } :
       \E converged \in { Converged(call.centroids, newCentroids) } :
           call' = [call EXCEPT
                      !.centroids  = newCentroids,
                      !.iterations = call.iterations + 1,
                      !.pc = IF LoopExits(call.iterations + 1, converged)
                             THEN "count" ELSE "iterate"]
    /\ UNCHANGED <<image, result, previous, adjuster>>

\* detectColorRegions after the loop: count the pixels of the final
\* assignment, build the regions, sort them by pixel count.
DetectFinish ==
    /\ call.op = "detectColorRegions"
    /\ call.pc = "count"
    /\ \E pixels \in { SamplePixelsAsHsl(image) } :
       \E assignments \in { AssignPixelsToCentroids(pixels, call.centroids) } :
       \E counts \in { CountAssigned(assignments, call.regionCount) } :
       \E regions \in { [j \in 1..call.regionCount |->
                           Region(RegionId(j - 1), CentroidHsl(call.centroids[j]),
                                  NoColor, counts[j])] } :
       \E f \in { Allocated(image, <<>>, SortByPixelCount(regions)) } :
           /\ image' = f.imageData
           /\ result' = f.returned
    /\ call' = [call EXCEPT !.pc = "done"]
    /\ UNCHANGED <<previous, adjuster>>

\* The caller takes the regions; the next call starts from there.
DetectReturn ==
    /\ call.op = "detectColorRegions"
    /\ call.pc = "done"
    /\ previous' = [op |-> call.op, regionCount |-> call.regionCount,
                    result |-> result]
    /\ call' = [op |-> "none"]
    /\ result' = <<>>
    /\ UNCHANGED <<image, adjuster>>

\* generateRegionMask for a region that is not one of allRegions: a region
\* kept from an earlier detection with more regions.  No statement on the
\* path throws; the mask is returned.
CallGenerateRegionMaskAbsent ==
    /\ call.op = "none"
    /\ \E regs \in { rs \in DetectedRegionSets : Len(rs) = MinRegions },
       mode \in MaskModes, c \in Centroids :
        LET region == Region(RegionId(Len(regs)), c, NoColor, 0)
        IN  /\ call.op = "none"
            /\ call' = [op |-> "generateRegionMask", region |-> 0,
                        regionId |-> region.id, allRegions |-> regs,
                        sharpness |-> mode.sharpness, hardMask |-> mode.hardMask,
                        outcome |-> "returned"]
            /\ result' = GenerateRegionMask(image, region, regs,
                                            mode.sharpness, mode.hardMask)
            /\ UNCHANGED <<image, previous, adjuster>>

\* setRegionTargetColor(regionId, color) on the adjuster: result is
\* this.regions after the call; a found region schedules the debounced
\* adjustment.  No statement on the path throws.
CallSetRegionTargetColor ==
    /\ call.op = "none"
    /\ \E regs \in AdjusterRegionSets, id \in CallerRegionIds :
        /\ call.op = "none"
        /\ call' = [op |-> "setRegionTargetColor", regions |-> regs, regionId |-> id,
                    color |-> TargetHex, outcome |-> "returned",
                    scheduled |-> (FindRegion(regs, id) /= 0)]
        /\ result' = SetRegionTargetColor(regs, id, TargetHex)
        /\ UNCHANGED <<image, previous, adjuster>>

\* clearRegionTargetColor(regionId) on the adjuster.
CallClearRegionTargetColor ==
    /\ call.op = "none"
    /\ \E regs \in AdjusterRegionSets, id \in CallerRegionIds :
        /\ call.op = "none"
        /\ call' = [op |-> "clearRegionTargetColor", regions |-> regs, regionId |-> id,
                    outcome |-> "returned",
                    scheduled |-> (FindRegion(regs, id) /= 0)]
        /\ result' = ClearRegionTargetColor(regs, id)
        /\ UNCHANGED <<image, previous, adjuster>>

\* setTargetColorForRegion(regionIndex, hexColor) on the adjuster with an
\* image loaded: result is this.regions after the call; an index inside the
\* list applies the adjustment at once and draws it on the adjusted canvas.
CallSetTargetColorForRegion ==
    /\ call.op = "none"
    /\ \E regs \in AdjusterRegionSets, index \in CallerRegionIndices, mode \in MaskModes :
        LET after   == SetTargetColorForRegion(regs, index, TargetHex)
            applied == ~(index < 0 \/ index >= Len(regs))
        IN  /\ call.op = "none"
            /\ call' = [op |-> "setTargetColorForRegion", regions |-> regs,
                        regionIndex |-> index, hexColor |-> TargetHex,
                        maskSharpness |-> mode.sharpness, useHardMasks |-> mode.hardMask,
                        outcome |-> "returned",
                        adjusted |-> IF applied
                                     THEN ApplyMultiRegionAdjustment(image, after,
                                              mode.sharpness, mode.hardMask)
                                     ELSE <<>>]
            /\ result' = after
            /\ UNCHANGED <<image, previous, adjuster>>

\* TextureAdjuster.applyAdjustment after setTargetColor(hexColor).
CallApplyAdjustment ==
    /\ call.op = "none"
    /\ \E hex \in CallerHexes :
        /\ call.op = "none"
        /\ call' = [op |-> "applyAdjustment", currentTargetColor |-> hex,
                    outcome |-> "returned"]
        /\ result' = ApplyAdjustment(image, hex)
        /\ UNCHANGED <<image, previous, adjuster>>

\* applyMultiRegionAdjustment with target colours as a caller typed them.
CallApplyMultiRegionAdjustmentOfHex ==
    /\ call.op = "none"
    /\ \E regs \in HexRegionSets, mode \in MaskModes :
        /\ call.op = "none"
        /\ call' = [op |-> "applyMultiRegionAdjustment", regions |-> regs,
                    sharpness |-> mode.sharpness, hardMask |-> mode.hardMask,
                    outcome |-> "returned"]
        /\ result' = ApplyMultiRegionAdjustment(image, regs, mode.sharpness, mode.hardMask)
        /\ UNCHANGED <<image, previous, adjuster>>

\* applyReplacements with source and target colours as a caller typed them.
CallApplyReplacementsOfHex ==
    /\ call.op = "none"
    /\ \E reps \in HexReplacementLists :
        /\ call.op = "none"
        /\ call' = [op |-> "applyReplacements", replacements |-> reps,
                    outcome |-> "returned"]
        /\ result' = ApplyReplacements(image, reps)
        /\ UNCHANGED <<image, previous, adjuster>>

\* rgbToHsl(r, g, b) on three channel values.
CallRgbToHsl ==
    /\ call.op = "none"
    /\ \E r \in Channels, g \in Channels, b \in Channels :
        /\ call' = [op |-> "rgbToHsl", args |-> Rgb(r, g, b), origin |-> <<>>]
        /\ result' = RgbToHsl(r, g, b)
    /\ UNCHANGED <<image, previous, adjuster>>

\* hslToRgb(...rgbToHsl(r, g, b)): the conversion back of what rgbToHsl returned.
CallHslToRgbOfResult ==
    /\ call.op = "rgbToHsl"
    /\ Len(call.origin) = 0
    /\ call' = [op |-> "hslToRgb", args |-> result, origin |-> <<call.args>>]
    /\ result' = HslToRgb(result.h, result.s, result.l)
    /\ UNCHANGED <<image, previous, adjuster>>

\* hslToRgb(h, s, l).
CallHslToRgb ==
    /\ call.op = "none"
    /\ \E h \in HueDegrees, s \in Percents, l \in Percents :
        /\ call' = [op |-> "hslToRgb", args |-> Hsl(h * Q, s * Q, l * Q), origin |-> <<>>]
        /\ result' = HslToRgb(h * Q, s * Q, l * Q)
    /\ UNCHANGED <<image, previous, adjuster>>

\* rgbToHsl(...hslToRgb(h, s, l)): the conversion back of what hslToRgb returned.
CallRgbToHslOfResult ==
    /\ call.op = "hslToRgb"
    /\ Len(call.origin) = 0
    /\ call' = [op |-> "rgbToHsl", args |-> result, origin |-> <<call.args>>]
    /\ result' = RgbToHsl(result.r, result.g, result.b)
    /\ UNCHANGED <<image, previous, adjuster>>

\* hslDistance(a, b) of MultiRegionImageProcessor.
CallHslDistance ==
    /\ call.op = "none"
    /\ \E a \in DistanceColours, b \in DistanceColours :
        /\ call' = [op |-> "hslDistance", a |-> a, b |-> b]
        /\ result' = HslDistance(a, b)
    /\ UNCHANGED <<image, previous, adjuster>>

\* colorDistance(h1, s1, l1, h2, s2, l2) of ColorReplacementProcessor.
CallColorDistance ==
    /\ call.op = "none"
    /\ \E a \in DistanceColours, b \in DistanceColours :
        /\ call' = [op |-> "colorDistance", a |-> a, b |-> b]
        /\ result' = ColorDistance(a.h, a.s, a.l, b.h, b.s, b.l)
    /\ UNCHANGED <<image, previous, adjuster>>

\* applyMultiRegionAdjustment on two regions with centroids near and far from
\* the pixels and target colours of high, low and no saturation.
CallApplyMultiRegionAdjustmentOfTargets ==
    /\ call.op = "none"
    /\ \E regs \in BlendRegionSets, mode \in MaskModes :
        \E f \in { Allocated(image, regs,
                             ApplyMultiRegionAdjustment(image, regs, mode.sharpness,
                                                        mode.hardMask)) } :
            /\ call' = [op |-> "applyMultiRegionAdjustment", regions |-> regs,
                        sharpness |-> mode.sharpness, hardMask |-> mode.hardMask,
                        after |-> f.inputs, fresh |-> f.fresh]
            /\ image' = f.imageData
            /\ result' = f.returned
    /\ UNCHANGED <<previous, adjuster>>

\* applyReplacements with replacements of different sources, targets and
\* tolerances.
CallApplyReplacementsOfTargets ==
    /\ call.op = "none"
    /\ \E reps \in ReplaceLists :
        \E f \in { Allocated(image, reps, ApplyReplacements(image, reps)) } :
            /\ call' = [op |-> "applyReplacements", replacements |-> reps,
                        after |-> f.inputs, fresh |-> f.fresh]
            /\ image' = f.imageData
            /\ result' = f.returned
    /\ UNCHANGED <<previous, adjuster>>

\* generateRegionMask for one region of a set in which pixels are at equal
\* distance from several centroids.
CallGenerateRegionMaskOfTies ==
    /\ call.op = "none"
    /\ \E regs \in TieRegionSets, mode \in MaskModes :
        \E j \in 1..Len(regs) :
            \E f \in { Allocated(image, regs,
                                 GenerateRegionMask(image, regs[j], regs,
                                                    mode.sharpness, mode.hardMask)) } :
                /\ call' = [op |-> "generateRegionMask", region |-> j,
                            allRegions |-> regs, sharpness |-> mode.sharpness,
                            hardMask |-> mode.hardMask, after |-> f.inputs]
                /\ image' = f.imageData
                /\ result' = f.returned
    /\ UNCHANGED <<previous, adjuster>>

\* setRegionTargetColor(regionId, color) for a region of the list: set the
\* target, schedule the adjustment.
PickRegionTargetColor ==
    /\ adjuster.kind = "MultiRegionTextureAdjuster"
    /\ adjuster.nextTimer <= MaxTimers
    /\ \E j \in 1..Len(adjuster.regions), color \in DebounceTargets :
          adjuster' = Schedule([adjuster EXCEPT
                                  !.regions = SetRegionTargetColor(adjuster.regions,
                                                                   adjuster.regions[j].id,
                                                                   color)])
    /\ call' = [op |-> "setRegionTargetColor"]
    /\ UNCHANGED <<image, result, previous>>

\* clearRegionTargetColor(regionId) for a region of the list.
ClickClearRegionTargetColor ==
    /\ adjuster.kind = "MultiRegionTextureAdjuster"
    /\ adjuster.nextTimer <= MaxTimers
    /\ \E j \in 1..Len(adjuster.regions) :
          adjuster' = Schedule([adjuster EXCEPT
                                  !.regions = ClearRegionTargetColor(adjuster.regions,
                                                                     adjuster.regions[j].id)])
    /\ call' = [op |-> "clearRegionTargetColor"]
    /\ UNCHANGED <<image, result, previous>>

\* The 'input' listener of the sharpness slider: keep the value, schedule the
\* adjustment if a region has a target.
SharpnessInput ==
    /\ adjuster.kind = "MultiRegionTextureAdjuster"
    /\ adjuster.nextTimer <= MaxTimers
    /\ \E value \in DebounceSharpness :
          \E a \in { [adjuster EXCEPT !.maskSharpness = value] } :
              adjuster' = IF SomeTarget(a.regions) THEN Schedule(a) ELSE a
    /\ call' = [op |-> "sharpnessInput"]
    /\ UNCHANGED <<image, result, previous>>

\* The 'change' listener of the hard-masks checkbox.
HardMasksChange ==
    /\ adjuster.kind = "MultiRegionTextureAdjuster"
    /\ adjuster.nextTimer <= MaxTimers
    /\ \E checked \in BOOLEAN :
          \E a \in { [adjuster EXCEPT !.useHardMasks = checked] } :
              adjuster' = IF SomeTarget(a.regions) THEN Schedule(a) ELSE a
    /\ call' = [op |-> "hardMasksChange"]
    /\ UNCHANGED <<image, result, previous>>

\* The callback of a pending timer of scheduleAdjustment runs:
\* applyAdjustments with the regions and settings the adjuster has now.
AdjustmentTimerFires ==
    /\ adjuster.kind = "MultiRegionTextureAdjuster"
    /\ \E t \in adjuster.pending :
          /\ adjuster' = Fired(adjuster, t)
          /\ call' = [op |-> "applyAdjustments", timer |-> t]
    /\ \E canvas \in { ApplyAdjustments(adjuster, image, result) } : result' = canvas
    /\ UNCHANGED <<image, previous>>

\* updateTargetColor(id, color) for a replacement of the list.
UpdateTargetColor ==
    /\ adjuster.kind = "ColorReplacementAdjuster"
    /\ adjuster.nextTimer <= MaxTimers
    /\ \E j \in 1..Len(adjuster.replacements), color \in DebounceTargets :
          adjuster' = Schedule([adjuster EXCEPT !.replacements[j].targetColor = color])
    /\ call' = [op |-> "updateTargetColor"]
    /\ UNCHANGED <<image, result, previous>>

\* updateTolerance(id, tolerance) for a replacement of the list.
UpdateTolerance ==
    /\ adjuster.kind = "ColorReplacementAdjuster"
    /\ adjuster.nextTimer <= MaxTimers
    /\ \E j \in 1..Len(adjuster.replacements), tolerance \in DebounceTolerances :
          adjuster' = Schedule([adjuster EXCEPT !.replacements[j].tolerance = tolerance])
    /\ call' = [op |-> "updateTolerance"]
    /\ UNCHANGED <<image, result, previous>>

\* removeReplacement(id) for a replacement of the list.
RemoveReplacement ==
    /\ adjuster.kind = "ColorReplacementAdjuster"
    /\ adjuster.nextTimer <= MaxTimers
    /\ \E j \in 1..Len(adjuster.replacements) :
          adjuster' = Schedule([adjuster EXCEPT
                                  !.replacements = WithoutReplacement(adjuster.replacements, j)])
    /\ call' = [op |-> "removeReplacement"]
    /\ UNCHANGED <<image, result, previous>>

\* The callback of a pending timer of scheduleApply runs: applyReplacements
\* with the replacements the adjuster has now.
ApplyTimerFires ==
    /\ adjuster.kind = "ColorReplacementAdjuster"
    /\ \E t \in adjuster.pending :
          /\ adjuster' = Fired(adjuster, t)
          /\ call' = [op |-> "applyReplacements", timer |-> t]
    /\ \E canvas \in { AdjusterApplyReplacements(adjuster, image) } : result' = canvas
    /\ UNCHANGED <<image, previous>>

----------------------------------------------------------------------------
(* Specifications: every call; and the calls of one concern each           *)

Next ==
    \/ CallGetDominantColor
    \/ CallApplyHslAdjustment
    \/ CallGenerateRegionMask
    \/ CallApplyMultiRegionAdjustment
    \/ CallGenerateSelectionMask
    \/ CallApplyReplacements
    \/ DetectStart
    \/ DetectPass
    \/ DetectFinish
    \/ DetectReturn
    \/ CallGenerateRegionMaskAbsent
    \/ CallSetRegionTargetColor
    \/ CallClearRegionTargetColor
    \/ CallSetTargetColorForRegion
    \/ CallApplyAdjustment
    \/ CallApplyMultiRegionAdjustmentOfHex
    \/ CallApplyReplacementsOfHex
    \/ CallRgbToHsl
    \/ CallHslToRgbOfResult
    \/ CallHslToRgb
    \/ CallRgbToHslOfResult
    \/ CallHslDistance
    \/ CallColorDistance

Spec == Init /\ [][Next]_vars

NextGlobal == CallGetDominantColor \/ CallApplyHslAdjustment

SpecGlobal == Init /\ [][NextGlobal]_vars

NextMask == CallGenerateRegionMask \/ CallGenerateSelectionMask

SpecMask == Init /\ [][NextMask]_vars

NextRecolor ==
    \/ CallApplyHslAdjustment
    \/ CallApplyMultiRegionAdjustment
    \/ CallApplyReplacements

SpecRecolor == Init /\ [][NextRecolor]_vars

NextDetect == DetectStart \/ DetectPass \/ DetectFinish \/ DetectReturn

SpecDetect == Init /\ [][NextDetect]_vars

\* detectColorRegions is one synchronous call: once started, its loop and the
\* statements after it run to the return without waiting for anything.
NextDetectCall == DetectStart \/ DetectPass \/ DetectFinish

SpecDetectFair ==
    Init /\ [][NextDetectCall]_vars /\ WF_vars(DetectPass) /\ WF_vars(DetectFinish)

NextCore ==
    \/ CallApplyHslAdjustment
    \/ CallGenerateRegionMask
    \/ CallApplyMultiRegionAdjustment
    \/ CallGenerateSelectionMask
    \/ CallApplyReplacements
    \/ DetectStart
    \/ DetectPass
    \/ DetectFinish

SpecCore == Init /\ [][NextCore]_vars

NextRegionRef ==
    \/ CallGenerateRegionMaskAbsent
    \/ CallSetRegionTargetColor
    \/ CallClearRegionTargetColor
    \/ CallSetTargetColorForRegion

SpecRegionRef == Init /\ [][NextRegionRef]_vars

NextHex ==
    \/ CallApplyAdjustment
    \/ CallApplyMultiRegionAdjustmentOfHex
    \/ CallApplyReplacementsOfHex

SpecHex == Init /\ [][NextHex]_vars

\* Detection on a two-half image.
InitTwoHalf ==
    /\ image \in TwoHalfImages
    /\ call = [op |-> "none"]
    /\ result = <<>>
    /\ previous = [op |-> "none"]
    /\ adjuster = NoAdjuster

SpecTwoHalf == InitTwoHalf /\ [][NextDetectCall]_vars

\* Detection on a buffer whose colours are sampled unevenly.
InitUneven ==
    /\ image \in UnevenImages
    /\ call = [op |-> "none"]
    /\ result = <<>>
    /\ previous = [op |-> "none"]
    /\ adjuster = NoAdjuster

SpecUneven == InitUneven /\ [][NextDetectCall]_vars

\* Detection on a buffer with hues mirrored about 0.
InitMirror ==
    /\ image \in MirrorImages
    /\ call = [op |-> "none"]
    /\ result = <<>>
    /\ previous = [op |-> "none"]
    /\ adjuster = NoAdjuster

SpecMirror == InitMirror /\ [][NextDetectCall]_vars

\* The static colour functions, called without a pixel buffer.
InitColor ==
    /\ image = <<>>
    /\ call = [op |-> "none"]
    /\ result = <<>>
    /\ previous = [op |-> "none"]
    /\ adjuster = NoAdjuster

NextColor ==
    \/ CallRgbToHsl
    \/ CallHslToRgbOfResult
    \/ CallHslToRgb
    \/ CallRgbToHslOfResult
    \/ CallHslDistance
    \/ CallColorDistance

SpecColor == InitColor /\ [][NextColor]_vars

\* The compositor on two-pixel buffers.
InitBlend ==
    /\ image \in BlendImages
    /\ call = [op |-> "none"]
    /\ result = <<>>
    /\ previous = [op |-> "none"]
    /\ adjuster = NoAdjuster

NextBlend == CallApplyMultiRegionAdjustmentOfTargets

SpecBlend == InitBlend /\ [][NextBlend]_vars

\* applyReplacements on two-pixel buffers.
InitReplace ==
    /\ image \in ReplaceImages
    /\ call = [op |-> "none"]
    /\ result = <<>>
    /\ previous = [op |-> "none"]
    /\ adjuster = NoAdjuster

NextReplace == CallApplyReplacementsOfTargets

SpecReplace == InitReplace /\ [][NextReplace]_vars

\* Region masks on two-pixel buffers with tied centroids.
NextTie == CallGenerateRegionMaskOfTies

SpecTie == InitBlend /\ [][NextTie]_vars

\* The three recolouring operations on buffers with gray pixels.
InitGray ==
    /\ image \in GrayImages
    /\ call = [op |-> "none"]
    /\ result = <<>>
    /\ previous = [op |-> "none"]
    /\ adjuster = NoAdjuster

NextGray ==
    \/ CallApplyHslAdjustment
    \/ CallApplyMultiRegionAdjustmentOfTargets
    \/ CallApplyReplacementsOfTargets

SpecGray == InitGray /\ [][NextGray]_vars

\* Detection on buffers whose sampled pixels differ from the others.
InitSparse ==
    /\ image \in SparseImages
    /\ call = [op |-> "none"]
    /\ result = <<>>
    /\ previous = [op |-> "none"]
    /\ adjuster = NoAdjuster

SpecSparse == InitSparse /\ [][NextDetectCall]_vars

\* An adjuster with its image loaded; the user changes colours and settings
\* and the timers fire.
InitDebounce ==
    /\ image \in DebounceImages
    /\ call = [op |-> "none"]
    /\ result = <<>>
    /\ previous = [op |-> "none"]
    /\ adjuster \in { NewMultiRegionTextureAdjuster, NewColorReplacementAdjuster }

NextDebounce ==
    \/ PickRegionTargetColor
    \/ ClickClearRegionTargetColor
    \/ SharpnessInput
    \/ HardMasksChange
    \/ AdjustmentTimerFires
    \/ UpdateTargetColor
    \/ UpdateTolerance
    \/ RemoveReplacement
    \/ ApplyTimerFires

\* A timer set with setTimeout fires once the delay has passed and the
\* handler that is running has returned; every handler returns.
SpecDebounce ==
    InitDebounce /\ [][NextDebounce]_vars
        /\ WF_vars(AdjustmentTimerFires) /\ WF_vars(ApplyTimerFires)

----------------------------------------------------------------------------
(* Properties                                                              *)

IsRecolor == call.op \in { "applyHslAdjustment", "applyMultiRegionAdjustment",
                           "applyReplacements" }

Opaque(px) == px.a >= AlphaThreshold

\* The masks of all regions of the generateRegionMask call made, each against
\* the same region set and mode; the mask of the region asked for is the
\* call's result.
AllRegionMasks ==
    [k \in 1..Len(call.allRegions) |->
        IF k = call.region THEN result
        ELSE GenerateRegionMask(image, call.allRegions[k], call.allRegions,
                                call.sharpness, call.hardMask)]

\* Sum over all regions of the mask weight at pixel i.
WeightSum(i) == SumSeq([k \in 1..Len(call.allRegions) |-> AllRegionMasks[k][i]])

\* C1: with no region carrying a target colour (applyMultiRegionAdjustment)
\* and with no replacement that is enabled and has a target colour
\* (applyReplacements), the returned buffer equals the input buffer in every
\* byte, for every image, sharpness and mask mode.
C1_NoTargetPassThrough ==
    /\ ( /\ call.op = "applyMultiRegionAdjustment"
         /\ \A j \in 1..Len(call.regions) : call.regions[j].targetColor.null )
       => result = image
    /\ ( /\ call.op = "applyReplacements"
         /\ \A j \in 1..Len(call.replacements) :
               ~(call.replacements[j].enabled /\ Truthy(call.replacements[j].targetColor)) )
       => result = image

\* C1 witness: a soft-mode multi-region call without any target colour on a
\* buffer that has an opaque, coloured pixel.
C1_Witness ==
    /\ call.op = "applyMultiRegionAdjustment"
    /\ ~call.hardMask
    /\ \A j \in 1..Len(call.regions) : call.regions[j].targetColor.null
    /\ \E i \in 1..Len(image) : Opaque(image[i]) /\ image[i].r /= image[i].g
    /\ result = image

\* C2: in all three recolor modes the output has the input's alpha at every pixel.
C2_AlphaPreserved ==
    IsRecolor =>
        /\ Len(result) = Len(image)
        /\ \A i \in 1..Len(image) : result[i].a = image[i].a

\* C2 witness: a recolor call that changed the colour of a pixel whose alpha
\* is neither 0 nor 255.
C2_Witness ==
    /\ IsRecolor
    /\ \E i \in 1..Len(image) :
          /\ image[i].a = AlphaThreshold
          /\ result[i].r /= image[i].r
          /\ result[i].a = image[i].a

\* C3: the soft masks of all regions of a region set (2 or more regions,
\* distinct ids) sum to 1 at every pixel with alpha >= 128, up to the rounding
\* of one weight per region, and to 0 at every pixel with alpha < 128.
C3_SoftPartitionOfUnity ==
    (call.op = "generateRegionMask" /\ ~call.hardMask) =>
        \A i \in 1..Len(image) :
            IF Opaque(image[i])
            THEN Abs(WeightSum(i) - W) <= Len(call.allRegions)
            ELSE WeightSum(i) = 0

\* C3 witness: a soft mask with a fractional weight at an opaque pixel, on a
\* buffer that also has a transparent pixel.
C3_Witness ==
    /\ call.op = "generateRegionMask"
    /\ ~call.hardMask
    /\ Len(call.allRegions) = MaxRegions
    /\ \E i \in 1..Len(image) : Opaque(image[i]) /\ result[i] > 0 /\ result[i] < W
    /\ \E i \in 1..Len(image) : ~Opaque(image[i]) /\ WeightSum(i) = 0

\* Number of regions whose hard-mask weight at pixel i is 1, and whether all
\* weights there are 0 or 1.
HardWinners(i) == { k \in 1..Len(call.allRegions) : AllRegionMasks[k][i] = W }

HardWeightsBinary(i) == \A k \in 1..Len(call.allRegions) : AllRegionMasks[k][i] \in {0, W}

\* C4 as stated: at every pixel of the image exactly one region's hard-mask
\* weight is 1 and every other region's weight is 0.
C4_HardPartitionEveryPixel ==
    (call.op = "generateRegionMask" /\ call.hardMask) =>
        \A i \in 1..Len(image) :
            HardWeightsBinary(i) /\ Cardinality(HardWinners(i)) = 1

\* C4 amended: at every pixel with alpha >= 128 exactly one region's hard-mask
\* weight is 1 and every other region's weight is 0; at a pixel with
\* alpha < 128 every region's weight is 0.
C4_HardPartitionOpaque ==
    (call.op = "generateRegionMask" /\ call.hardMask) =>
        \A i \in 1..Len(image) :
            /\ HardWeightsBinary(i)
            /\ Cardinality(HardWinners(i)) = IF Opaque(image[i]) THEN 1 ELSE 0

\* C4 witness: a hard mask over regions of which two have the same centroid,
\* on a buffer with an opaque pixel the region asked for wins.
C4_Witness ==
    /\ call.op = "generateRegionMask"
    /\ call.hardMask
    /\ \E j, k \in 1..Len(call.allRegions) :
          j /= k /\ call.allRegions[j].centroidHsl = call.allRegions[k].centroidHsl
    /\ \E i \in 1..Len(image) : Opaque(image[i]) /\ result[i] = W
    /\ \E i \in 1..Len(image) : ~Opaque(image[i])

\* C5: a pixel with alpha < 128 has weight 0 in every region mask, hard or
\* soft, and in every selection mask.
C5_TransparentWeightZero ==
    call.op \in {"generateRegionMask", "generateSelectionMask"} =>
        \A i \in 1..Len(image) : image[i].a < AlphaThreshold => result[i] = 0

\* C5 witness: a region mask that gives an opaque pixel a positive weight and
\* a transparent pixel of the same buffer weight 0.
C5_Witness ==
    /\ call.op = "generateRegionMask"
    /\ \E i \in 1..Len(image) : Opaque(image[i]) /\ result[i] > 0
    /\ \E i \in 1..Len(image) : ~Opaque(image[i]) /\ result[i] = 0

\* Distance of pixel i to the source colour of the generateSelectionMask call made.
SelectionDistance(i) ==
    LET c   == RgbToHsl(image[i].r, image[i].g, image[i].b)
        src == HexToHsl(call.sourceColorHex)
    IN  ColorDistance(c.h, c.s, c.l, src.h, src.s, src.l)

\* C6: for every tolerance in 0..100, 0 included, an opaque pixel at distance
\* exactly tolerance * 1.5 from the source colour has selection strength 0,
\* and no selection strength is NaN or negative.
C6_ToleranceBoundary ==
    call.op = "generateSelectionMask" =>
        \A i \in 1..Len(image) :
            /\ ~IsNaN(result[i])
            /\ result[i] >= 0
            /\ (Opaque(image[i]) /\ SelectionDistance(i) = MaxDistance(call.tolerance))
                  => result[i] = 0

\* C7: on a buffer whose every pixel has alpha < 128, each recolor call
\* returns the input's R, G, B and A at every pixel.
C7_TransparentPassThrough ==
    (IsRecolor /\ \A i \in 1..Len(image) : image[i].a < AlphaThreshold)
        => result = image

\* C8: applyHslAdjustment with the image's own dominant colour as target
\* returns every pixel with R, G, B within 1 of the input and the same alpha.
C8_DominantTargetNoOp ==
    (call.op = "applyHslAdjustment" /\ call.targetRgb = GetDominantColor(image)) =>
        \A i \in 1..Len(image) :
            /\ Abs(result[i].r - image[i].r) <= 1
            /\ Abs(result[i].g - image[i].g) <= 1
            /\ Abs(result[i].b - image[i].b) <= 1
            /\ result[i].a = image[i].a

\* C8 witness: the dominant colour as target on a buffer of two different
\* colours, one of them not gray, none equal to the dominant colour.
C8_Witness ==
    /\ call.op = "applyHslAdjustment"
    /\ call.targetRgb = GetDominantColor(image)
    /\ \E i, j \in 1..Len(image) :
          /\ image[i].r /= image[j].r
          /\ image[i].r /= image[i].g
    /\ \A i \in 1..Len(image) :
          Rgb(image[i].r, image[i].g, image[i].b) /= call.targetRgb

\* The dominant colour as C9 states it: the rounded mean over the strided
\* samples with alpha >= 128, mid-gray when there is none.
DominantAsStated(img) ==
    LET idx == { i \in Strided(img, DominantStride) : img[i].a >= AlphaThreshold }
        Ch(ch) == SumSeq([k \in 1..Len(img) |-> IF k \in idx THEN img[k][ch] ELSE 0])
        n   == Cardinality(idx)
    IN  IF n = 0 THEN Rgb(128, 128, 128)
        ELSE Rgb(RoundDiv(Ch("r"), n), RoundDiv(Ch("g"), n), RoundDiv(Ch("b"), n))

\* C9: getDominantColor returns the rounded mean of R, G, B over exactly the
\* strided samples (every 10th pixel) with alpha >= 128, a sample with alpha
\* exactly 128 included, and mid-gray when no sample has alpha >= 128.
C9_DominantIsMeanOfOpaqueSamples ==
    call.op = "getDominantColor" => result = DominantAsStated(image)

\* A detectColorRegions call has returned after an earlier one on the same
\* buffer with the same region count.
DetectedTwice ==
    /\ call.op = "detectColorRegions"
    /\ call.pc = "done"
    /\ previous.op = "detectColorRegions"
    /\ previous.regionCount = call.regionCount

\* Sum of the pixel counts of a list of regions.
TotalPixelCount(regions) == SumSeq([j \in 1..Len(regions) |-> regions[j].pixelCount])

\* The ids of a list of regions.
RegionIds(regions) == { regions[j].id : j \in 1..Len(regions) }

\* The opaque samples of the buffer all have one colour (or there is none).
OneSampledColour ==
    \A p, q \in { SamplePixelsAsHsl(image)[i] : i \in 1..Len(SamplePixelsAsHsl(image)) } :
        p.h = q.h /\ p.s = q.s /\ p.l = q.l

\* C10 as stated: two calls of detectColorRegions on the same image with the
\* same region count return the same regions: same centroids, pixel counts
\* and order.
C10_DetectSameRegions ==
    DetectedTwice => result = previous.result

\* C10 amended: two calls of detectColorRegions on the same image with the
\* same region count return the same number of regions, the same set of ids
\* and the same total pixel count, and the same regions when the opaque
\* samples all have one colour; with several sampled colours the centroids,
\* pixel counts and order depend on the random draws.
C10_DetectSameShape ==
    DetectedTwice =>
        /\ Len(result) = Len(previous.result)
        /\ RegionIds(result) = RegionIds(previous.result)
        /\ TotalPixelCount(result) = TotalPixelCount(previous.result)
        /\ OneSampledColour => result = previous.result

\* C10 witness: the second of two calls with the same region count on a
\* buffer with two sampled colours returns other regions than the first.
C10_Witness ==
    /\ DetectedTwice
    /\ ~OneSampledColour
    /\ Len(result) = call.regionCount
    /\ result /= previous.result

\* The call names a region that is not in the region set it is made on.
NamesAbsentRegion ==
    \/ /\ call.op = "generateRegionMask"
       /\ call.region = 0
       /\ ~HasRegionId(call.allRegions, call.regionId)
    \/ /\ call.op \in {"setRegionTargetColor", "clearRegionTargetColor"}
       /\ ~HasRegionId(call.regions, call.regionId)
    \/ /\ call.op = "setTargetColorForRegion"
       /\ (call.regionIndex < 0 \/ call.regionIndex >= Len(call.regions))

\* C11: a call that names a region absent from the current region set
\* (generateRegionMask with a region whose id is not in allRegions, the
\* adjuster's setRegionTargetColor, clearRegionTargetColor and
\* setTargetColorForRegion with an unknown id or index) raises an error
\* instead of returning.
C11_AbsentRegionRaises == NamesAbsentRegion => call.outcome = "threw"

\* What the code does with such a call: the mask is all zeros, the
\* adjuster's regions are left as they were.
C11_AbsentRegionIgnored ==
    NamesAbsentRegion =>
        /\ call.outcome = "returned"
        /\ call.op = "generateRegionMask" => \A i \in 1..Len(result) : result[i] = 0
        /\ call.op /= "generateRegionMask" => result = call.regions

\* The string is not a colour for the pattern of hexToRgb.
InvalidHex(hex) ==
    /\ Truthy(hex)
    /\ ~(Len(hex.chars) = 6 /\ \A i \in 1..6 : hex.chars[i] \in 0..15)

\* The string, or '#808080' in the place of an invalid one.
GrayForInvalid(hex) == IF InvalidHex(hex) THEN RgbToHex(128, 128, 128) ELSE hex

\* The result of the call had every invalid colour string been '#808080'.
ResultWithGray ==
    CASE call.op = "applyAdjustment" ->
            ApplyHslAdjustment(image, HexToRgb(GrayForInvalid(call.currentTargetColor)))
      [] call.op = "applyMultiRegionAdjustment" ->
            ApplyMultiRegionAdjustment(image,
                Materialize([j \in 1..Len(call.regions) |->
                    [call.regions[j] EXCEPT !.targetColor = GrayForInvalid(@)]]),
                call.sharpness, call.hardMask)
      [] call.op = "applyReplacements" ->
            ApplyReplacements(image,
                Materialize([j \in 1..Len(call.replacements) |->
                    [call.replacements[j] EXCEPT !.sourceColor = GrayForInvalid(@),
                                                 !.targetColor = GrayForInvalid(@)]]))

\* The call was given an invalid colour string.
GivenInvalidHex ==
    \/ /\ call.op = "applyAdjustment"
       /\ InvalidHex(call.currentTargetColor)
    \/ /\ call.op = "applyMultiRegionAdjustment"
       /\ \E j \in 1..Len(call.regions) : InvalidHex(call.regions[j].targetColor)
    \/ /\ call.op = "applyReplacements"
       /\ \E j \in 1..Len(call.replacements) :
              \/ InvalidHex(call.replacements[j].sourceColor)
              \/ InvalidHex(call.replacements[j].targetColor)

\* C12: an invalid colour string never raises and counts as mid-gray
\* (128,128,128) in every recolor path: as target colour of a region, as
\* source or target colour of a replacement, and as target colour of the
\* global adjustment.
C12_InvalidHexIsMidGray ==
    GivenInvalidHex => call.outcome = "returned" /\ result = ResultWithGray

\* The two processors do treat an invalid colour string as mid-gray.
C12_ProcessorsMidGray ==
    (GivenInvalidHex /\ call.op /= "applyAdjustment") =>
        call.outcome = "returned" /\ result = ResultWithGray

\* The operations that take the caller's regions or replacements.
TakesList(c) ==
    c.op \in {"generateRegionMask", "applyMultiRegionAdjustment", "applyReplacements"}

\* The list the call was given.
ListGiven(c) ==
    CASE c.op = "generateRegionMask" -> c.allRegions
      [] c.op = "applyMultiRegionAdjustment" -> c.regions
      [] c.op = "applyReplacements" -> c.replacements

\* A step of a call leaves the input buffer as it was and the caller's list as
\* it was given; a recolor call returns a buffer of its own with as many
\* pixels as the input.
ReadOnlyStep ==
    /\ image' = image
    /\ (call'.op /= "none" /\ TakesList(call')) => call'.after = ListGiven(call')
    /\ IsRecolor' => call'.fresh /\ Len(result') = Len(image)

Detecting == call.op = "detectColorRegions"

\* C14: detectColorRegions always terminates: it makes at most 10
\* assign-and-recompute passes and then the one final assignment pass, for
\* every image and number of regions, also when a cluster is empty and
\* reseeded with a random pixel on every pass.
C14_DetectTerminates ==
    /\ [](Detecting => call.iterations <= MaxIterations)
    /\ (Detecting /\ call.pc = "iterate") ~> (Detecting /\ call.pc = "count")
    /\ (Detecting /\ call.pc = "count") ~> (Detecting /\ call.pc = "done")

\* The loop has used all its passes, a cluster having been empty and reseeded
\* in the assignment of the last centroids.
C14_Witness ==
    /\ Detecting
    /\ call.pc = "done"
    /\ call.iterations = MaxIterations
    /\ result /= <<>>
    /\ \E j \in 1..Len(result) : result[j].pixelCount = 0

\* The hue is within a degree of the given whole degree, around the circle.
HueNear(h, degrees) ==
    \/ Abs(h - degrees * Q) <= Q
    \/ Abs(h - degrees * Q) >= 359 * Q

\* The count is half of n, to within one pixel.
AboutHalf(count, n) == Abs(2 * count - n) <= 2

\* The buffer is one half pure red and one half pure blue, all opaque.
IsTwoHalf(img) ==
    /\ \A i \in 1..Len(img) : img[i] \in { Pixel(255, 0, 0, 255), Pixel(0, 0, 255, 255) }
    /\ 2 * Cardinality({ i \in 1..Len(img) : img[i].r = 255 }) = Len(img)

\* Detection with K = 2 has returned a region near red and a region near
\* blue, each with about half of the sampled pixels.
RedAndBlueHalves ==
    /\ Len(result) = 2
    /\ \E j \in 1..2 :
          /\ HueNear(result[j].centroidHsl.h, 0)
          /\ HueNear(result[3 - j].centroidHsl.h, 240)
    /\ \A j \in 1..2 : AboutHalf(result[j].pixelCount, Len(SamplePixelsAsHsl(image)))

\* Detection with K = 2 of a two-half buffer has returned.
TwoHalfDetected ==
    /\ Detecting
    /\ call.pc = "done"
    /\ call.regionCount = 2
    /\ IsTwoHalf(image)

\* Of the sampled pixels, every fourth of the buffer, as many are red as blue.
SampleBalanced ==
    LET pixels == SamplePixelsAsHsl(image)
    IN  2 * Cardinality({ i \in 1..Len(pixels) : HueNear(pixels[i].h, 0) }) = Len(pixels)

\* C15: clustering a fully opaque two-half image (left half pure red, right
\* half pure blue) with K = 2 returns, for every choice of the random first
\* centroid, one region with a centroid hue near red (0) and one near blue
\* (240), each with a pixelCount of about half of the sampled pixels.
C15_TwoHalfRedAndBlue == TwoHalfDetected => RedAndBlueHalves

\* C15 as amended: the same for a two-half image of whose sampled pixels
\* (every fourth pixel of the buffer) as many are red as blue.
C15_BalancedTwoHalfRedAndBlue == (TwoHalfDetected /\ SampleBalanced) => RedAndBlueHalves

\* Detection with K = 2 of a balanced two-half image has returned its two regions.
C15_Witness ==
    /\ TwoHalfDetected
    /\ SampleBalanced
    /\ RedAndBlueHalves
    /\ Len(SamplePixelsAsHsl(image)) >= 4

\* The pixel counts do not increase along the list.
PixelCountDescending(regions) ==
    \A j \in 1..(Len(regions) - 1) : regions[j].pixelCount >= regions[j + 1].pixelCount

\* C16: the list detectColorRegions returns is ordered by pixelCount, largest
\* first: each region has at least as many pixels as the one after it,
\* whatever the first centroid and the reseedings were.
C16_SortedByPixelCount ==
    (Detecting /\ call.pc = "done") => PixelCountDescending(result)

\* A returned list that the sort reordered: the largest region is not the one
\* of the first centroid, and the counts differ.
C16_Witness ==
    /\ Detecting
    /\ call.pc = "done"
    /\ Len(result) >= MinRegions
    /\ result[1].id /= RegionId(0)
    /\ result[1].pixelCount > result[Len(result)].pixelCount

\* The hue is normalized: at least 0 and less than 360.
HueNormalized(h) == h >= 0 /\ h < 360 * Q

\* C19: all hues are normalized into [0,360): the hue rgbToHsl returns for
\* the sampled pixels of the buffer, and the hue of every centroid
\* detectColorRegions works with and returns.
C19_HuesNormalized ==
    /\ \A i \in 1..Len(image) :
           HueNormalized(RgbToHsl(image[i].r, image[i].g, image[i].b).h)
    /\ Detecting =>
           /\ \A j \in 1..Len(call.centroids) : HueNormalized(call.centroids[j].h)
           /\ \A j \in 1..Len(result) : HueNormalized(result[j].centroidHsl.h)

\* The hue rgbToHsl returns is normalized, for every pixel of the buffers.
C19_RgbToHslHueNormalized ==
    \A i \in 1..Len(image) :
        HueNormalized(RgbToHsl(image[i].r, image[i].g, image[i].b).h)

\* The call converts back what the conversion of call.origin[1] returned.
ConvertsBack(op) == call.op = op /\ Len(call.origin) = 1

\* C17: RGB round trip: hslToRgb(rgbToHsl(r, g, b)) returns each channel
\* within 1 of r, g, b.
C17_RgbRoundTrip ==
    ConvertsBack("hslToRgb") =>
        /\ Abs(result.r - call.origin[1].r) <= 1
        /\ Abs(result.g - call.origin[1].g) <= 1
        /\ Abs(result.b - call.origin[1].b) <= 1

\* A colour with three different channels has been converted and back.
C17_Witness ==
    /\ ConvertsBack("hslToRgb")
    /\ call.origin[1] = Rgb(200, 64, 129)
    /\ result = Rgb(200, 64, 129)

\* Distance of two hues around the circle.
CircularHueDiff(h1, h2) == Min2(Abs(h1 - h2), 360 * Q - Abs(h1 - h2))

\* C18: HSL round trip: rgbToHsl(hslToRgb(h, s, l)) returns saturation and
\* lightness within 1 unit of s and l and, when s > 0, hue within 1 unit of h.
C18_HslRoundTrip ==
    ConvertsBack("rgbToHsl") =>
        /\ Abs(result.s - call.origin[1].s) <= Q
        /\ Abs(result.l - call.origin[1].l) <= Q
        /\ call.origin[1].s > 0 => CircularHueDiff(result.h, call.origin[1].h) <= Q

\* The lightness comes back within 1 unit.
C18_LightnessRoundTrip ==
    ConvertsBack("rgbToHsl") => Abs(result.l - call.origin[1].l) <= Q

\* A colour of lightness 0 and saturation 50 has been converted to black and
\* back: the saturation is lost, the lightness is kept.
C18_Witness ==
    /\ ConvertsBack("rgbToHsl")
    /\ call.origin[1] = Hsl(200 * Q, 50 * Q, 0)
    /\ call.args = Rgb(0, 0, 0)
    /\ result = Hsl(0, 0, 0)

\* The hue difference of two colours of full saturation and one lightness,
\* as the distance function gives it: the distance is the hue difference then.
FullySaturated(a, b) == a.s = 100 * Q /\ b.s = 100 * Q /\ a.l = b.l

\* C20: hue circularity: for hues h1, h2 in [0,360) the hue difference both
\* distance functions use is min(|h1-h2|, 360-|h1-h2|), symmetric, and in
\* [0,180]; hues 10 and 350 are 20 apart, hues 0 and 180 are 180 apart.
C20_HueCircular ==
    (call.op \in {"hslDistance", "colorDistance"} /\ FullySaturated(call.a, call.b)) =>
        /\ result = CircularHueDiff(call.a.h, call.b.h)
        /\ result = HslDistance(call.b, call.a)
        /\ result = ColorDistance(call.b.h, call.b.s, call.b.l,
                                  call.a.h, call.a.s, call.a.l)
        /\ result >= 0
        /\ result <= 180 * Q
        /\ (call.a.h = 10 * Q /\ call.b.h = 350 * Q) => result = 20 * Q
        /\ (call.a.h = 0 /\ call.b.h = 180 * Q) => result = 180 * Q

\* hslDistance has been called on hues 10 and 350 and returned 20.
C20_Witness ==
    /\ call.op = "hslDistance"
    /\ FullySaturated(call.a, call.b)
    /\ call.a.h = 10 * Q
    /\ call.b.h = 350 * Q
    /\ result = 20 * Q

\* The regions of the applyMultiRegionAdjustment call that carry a target.
CallActive == ActiveRegions(call.regions)

\* Mask weight of active region j at pixel i, as the call computed it.
CallWeight(j, i) ==
    GenerateRegionMask(image, CallActive[j], call.regions, call.sharpness, call.hardMask)[i]

\* Candidate colour of active region j for pixel i.
CallCandidate(j, i) ==
    RegionCandidate(RgbToHsl(image[i].r, image[i].g, image[i].b),
                    RegionShift(CallActive[j])).rgb

\* Pixel i is the rounded weighted average of the candidates of the active
\* regions in used, or the input pixel when their weights sum to 0.
AverageOf(used, i) ==
    LET total  == SumSeq([j \in 1..Len(CallActive) |->
                             IF j \in used THEN CallWeight(j, i) ELSE 0])
        Acc(ch) == SumSeq([j \in 1..Len(CallActive) |->
                             IF j \in used THEN CallCandidate(j, i)[ch] * CallWeight(j, i)
                             ELSE 0])
    IN  IF total = 0 THEN result[i] = image[i]
        ELSE /\ result[i].r = RoundDiv(Acc("r"), total)
             /\ result[i].g = RoundDiv(Acc("g"), total)
             /\ result[i].b = RoundDiv(Acc("b"), total)

\* The call is a compositor call with at least one active region.
Composited == call.op = "applyMultiRegionAdjustment" /\ Len(CallActive) > 0

\* C21: for every opaque pixel the output is the rounded mask-weighted average
\* of the candidates of all active regions with nonzero weight there, and the
\* pixel passes through only when those weights sum to 0.
C21_NonzeroWeightsAveraged ==
    Composited =>
        \A i \in 1..Len(image) :
            Opaque(image[i]) =>
                AverageOf({ j \in 1..Len(CallActive) : CallWeight(j, i) > 0 }, i)

\* C21 as the code has it: the regions averaged are those with a weight of at
\* least 0.001; a pixel where no active region has such a weight passes through.
C21_WeightsFromThousandthAveraged ==
    Composited =>
        \A i \in 1..Len(image) :
            Opaque(image[i]) =>
                AverageOf({ j \in 1..Len(CallActive) : CallWeight(j, i) * 1000 >= W }, i)

\* A soft-mode call in which an opaque pixel has an active region of weight
\* above 0 and below 0.001, and comes out changed by another region.
C21_Witness ==
    /\ Composited
    /\ ~call.hardMask
    /\ Len(CallActive) = 2
    /\ \E i \in 1..Len(image) :
          /\ Opaque(image[i])
          /\ \E j \in 1..2 : CallWeight(j, i) > 0 /\ CallWeight(j, i) * 1000 < W
          /\ result[i] /= image[i]

\* The call is an applyReplacements call.
Replacing == call.op = "applyReplacements"

\* The enabled replacements with a target colour of the call.
CallReplacements == ActiveReplacements(call.replacements)

\* Colour distance of pixel i to the source colour of active replacement j.
SourceDistance(j, i) ==
    LET c   == RgbToHsl(image[i].r, image[i].g, image[i].b)
        src == HexToHsl(CallReplacements[j].sourceColor)
    IN  ColorDistance(c.h, c.s, c.l, src.h, src.s, src.l)

\* The active replacements within whose tolerance * 1.5 pixel i lies.
InTolerance(i) ==
    { j \in 1..Len(CallReplacements) :
        SourceDistance(j, i) * 2 <= CallReplacements[j].tolerance * 3 * Q }

\* The winners of pixel i: in tolerance, no other in tolerance is nearer, and
\* none as near comes earlier in the list.
Winners(i) ==
    { j \in InTolerance(i) :
        \A k \in InTolerance(i) :
            /\ SourceDistance(j, i) <= SourceDistance(k, i)
            /\ k < j => SourceDistance(k, i) > SourceDistance(j, i) }

\* C22: an opaque pixel comes out as applyReplacements with its single winner
\* as the only replacement gives it, and with its input RGB when no active
\* replacement has it within tolerance.
C22_WinnerTakeAll ==
    Replacing =>
        \A i \in 1..Len(image) :
            Opaque(image[i]) =>
                /\ InTolerance(i) = {} => result[i] = image[i]
                /\ InTolerance(i) /= {} =>
                       /\ Cardinality(Winners(i)) = 1
                       /\ \A j \in Winners(i) :
                             result[i] = ApplyReplacements(image, <<CallReplacements[j]>>)[i]

\* A call where an opaque pixel is within tolerance of two replacements with
\* different targets, the second in the list is the nearer, and the pixel comes
\* out changed and other than the first alone would make it.
C22_Witness ==
    /\ Replacing
    /\ Len(CallReplacements) = 2
    /\ CallReplacements[1].targetColor /= CallReplacements[2].targetColor
    /\ \E i \in 1..Len(image) :
          /\ Opaque(image[i])
          /\ InTolerance(i) = {1, 2}
          /\ Winners(i) = {2}
          /\ result[i] /= image[i]
          /\ result[i] /= ApplyReplacements(image, <<CallReplacements[1]>>)[i]

\* The signed arcs of at most half a turn from hue a to hue b (two at 180).
ShortestArcs(a, b) ==
    { d \in { b - a - 360 * Q, b - a, b - a + 360 * Q } : Abs(d) <= 180 * Q }

\* The hues a matched pixel of colour c may get by the three ranges of its
\* saturation, for target hue targetH and shift hueShift.
HueByRange(c, targetH, hueShift) ==
    IF c.s < 8 * Q THEN { targetH }
    ELSE IF c.s < 20 * Q
    THEN { (targetH + RoundDiv(arc * (c.s - 8 * Q), 12 * Q)) % (360 * Q) :
             arc \in ShortestArcs(targetH, (c.h + hueShift) % (360 * Q)) }
    ELSE { (c.h + hueShift) % (360 * Q) }

\* Pixel i with hue newH, the winner's saturation ratio and lightness shift,
\* blended over the input by the winner's strength.
RecoloredWithHue(i, rd, newH) ==
    LET c    == RgbToHsl(image[i].r, image[i].g, image[i].b)
        newS == Clamp(RoundDiv(c.s * rd.satRatioNum, rd.satRatioDen), 0, 100 * Q)
        newL == Clamp(c.l + rd.lightShift, 0, 100 * Q)
        adj  == HslToRgb(newH, newS, newL)
        blend == Pow07(Strength(ColorDistance(c.h, c.s, c.l, rd.sourceH, rd.sourceS,
                                              rd.sourceL), rd.maxDistance))
    IN  Pixel(BlendChannel(image[i].r, adj.r, blend),
              BlendChannel(image[i].g, adj.g, blend),
              BlendChannel(image[i].b, adj.b, blend), image[i].a)

\* Pixel i is matched by active replacement j: j wins it with a strength above 0.
Matched(i, j) ==
    /\ Opaque(image[i])
    /\ j \in Winners(i)
    /\ CallReplacements[j].tolerance > 0
    /\ SourceDistance(j, i) < MaxDistance(CallReplacements[j].tolerance)

\* C23: a matched pixel comes out with the hue its saturation range gives it:
\* the target hue below 8, the target hue plus (s - 8) / 12 of the shortest arc
\* to the shifted hue from 8 to 20, the shifted hue from 20 on.
C23_HueBySaturationRange ==
    Replacing =>
        \A i \in 1..Len(image) : \A j \in 1..Len(CallReplacements) :
            Matched(i, j) =>
                \E rd \in { ReplacementData(image, CallReplacements[j]) } :
                    \E newH \in HueByRange(RgbToHsl(image[i].r, image[i].g, image[i].b),
                                           rd.targetH, rd.hueShift) :
                        result[i] = RecoloredWithHue(i, rd, newH)

\* A call that matched a pixel of saturation between 8 and 20 and one of
\* saturation below 8, and gave the first a colour that neither the target hue
\* nor the shifted hue gives, the second one the shifted hue does not give.
C23_Witness ==
    /\ Replacing
    /\ \E i, k \in 1..Len(image) : \E j, m \in 1..Len(CallReplacements) :
          /\ Matched(i, j) /\ Matched(k, m)
          /\ \E c \in { RgbToHsl(image[i].r, image[i].g, image[i].b) } :
                \E rd \in { ReplacementData(image, CallReplacements[j]) } :
                   /\ c.s >= 8 * Q /\ c.s < 20 * Q
                   /\ result[i] /= RecoloredWithHue(i, rd, rd.targetH)
                   /\ result[i] /= RecoloredWithHue(i, rd, (c.h + rd.hueShift) % (360 * Q))
          /\ \E c \in { RgbToHsl(image[k].r, image[k].g, image[k].b) } :
                \E rd \in { ReplacementData(image, CallReplacements[m]) } :
                   /\ c.s > 0 /\ c.s < 8 * Q
                   /\ result[k] /= RecoloredWithHue(k, rd, (c.h + rd.hueShift) % (360 * Q))

\* The circular distance of two hues in [0, 360).
CircularDistance(h1, h2) == Min2(Abs(h1 - h2), 360 * Q - Abs(h1 - h2))

\* Pixel i's candidate hue under active region j is no farther from the
\* pixel's hue than the hue shifted by the region's whole hueShift.
DampedNoFarther(j, i) ==
    \E c \in { RgbToHsl(image[i].r, image[i].g, image[i].b) } :
        \E shift \in { RegionShift(CallActive[j]) } :
            CircularDistance(c.h, RegionCandidate(c, shift).hsl.h)
                <= CircularDistance(c.h, (c.h + shift.hueShift) % (360 * Q))

\* C24: for every opaque pixel and every active region of a compositor call
\* the damped candidate hue is at most as far around the circle from the
\* pixel's hue as the fully shifted hue.
C24_DampingNeverFarther ==
    Composited =>
        \A i \in 1..Len(image) : \A j \in 1..Len(CallActive) :
            Opaque(image[i]) => DampedNoFarther(j, i)

\* The same for the regions whose hueShift is at most half a turn either way.
C24_DampingWithinHalfTurn ==
    Composited =>
        \A i \in 1..Len(image) : \A j \in 1..Len(CallActive) :
            (Opaque(image[i]) /\ Abs(RegionShift(CallActive[j]).hueShift) <= 180 * Q)
                => DampedNoFarther(j, i)

\* The region of the call nearest to pixel i, the first one on equal distance.
NearestRegion(i) ==
    LET c == RgbToHsl(image[i].r, image[i].g, image[i].b)
        d == Materialize([k \in 1..Len(call.regions) |->
                             HslDistance(c, call.regions[k].centroidHsl)])
    IN  CHOOSE k \in 1..Len(call.regions) :
            /\ \A m \in 1..Len(call.regions) : d[k] <= d[m]
            /\ \A m \in 1..(k - 1) : d[m] > d[k]

\* Pixel i has the colour of the centroid of its nearest region, and that
\* region has a target colour.
AtTargetedCentroid(i) ==
    /\ Opaque(image[i])
    /\ RgbToHsl(image[i].r, image[i].g, image[i].b)
           = call.regions[NearestRegion(i)].centroidHsl
    /\ ~call.regions[NearestRegion(i)].targetColor.null

\* Output pixel i is the target colour of its nearest region within 1 per channel.
OnTarget(i) ==
    \E t \in { HexToRgb(call.regions[NearestRegion(i)].targetColor) } :
        /\ Abs(result[i].r - t.r) <= 1
        /\ Abs(result[i].g - t.g) <= 1
        /\ Abs(result[i].b - t.b) <= 1

\* The call is a compositor call with hard masks.
HardComposited == Composited /\ call.hardMask

\* C25: with hard masks an opaque pixel with the colour of the centroid of its
\* nearest region, which has target T, comes out as T within 1 per channel.
C25_CentroidOntoTarget ==
    HardComposited =>
        \A i \in 1..Len(image) : AtTargetedCentroid(i) => OnTarget(i)

\* C25 for the regions the hue damping leaves alone: centroid saturation at
\* least 20 and target saturation at least 30, or a gray target.
C25_SaturatedCentroidOntoTarget ==
    HardComposited =>
        \A i \in 1..Len(image) :
            (/\ AtTargetedCentroid(i)
             /\ \E r \in { call.regions[NearestRegion(i)] } :
                   \/ r.centroidHsl.s >= 20 * Q /\ HexToHsl(r.targetColor).s >= 30 * Q
                   \/ HexToHsl(r.targetColor).s = 0)
                => OnTarget(i)

\* A hard-mask call where a pixel with the colour of its nearest region's
\* saturated centroid came out changed, as the region's saturated target.
C25_Witness ==
    /\ HardComposited
    /\ \E i \in 1..Len(image) :
          /\ AtTargetedCentroid(i)
          /\ call.regions[NearestRegion(i)].centroidHsl.s >= 20 * Q
          /\ HexToHsl(call.regions[NearestRegion(i)].targetColor).s >= 30 * Q
          /\ OnTarget(i)
          /\ Abs(result[i].g - image[i].g) > 1

\* The call is a soft-mode compositor call with one region carrying a target.
SoftSingle == Composited /\ ~call.hardMask /\ Len(CallActive) = 1

\* Output pixel i has the RGB of the candidate colour of active region j.
IsCandidate(i, j) ==
    /\ result[i].r = CallCandidate(j, i).r
    /\ result[i].g = CallCandidate(j, i).g
    /\ result[i].b = CallCandidate(j, i).b

\* C26: in soft mode with a single region carrying a target, an opaque pixel
\* with weight at least 0.001 for it comes out as the region's full candidate
\* colour, and one with a smaller weight with its input RGB.
C26_SingleRegionUnattenuated ==
    SoftSingle =>
        \A i \in 1..Len(image) :
            Opaque(image[i]) =>
                IF CallWeight(1, i) * 1000 >= W
                THEN IsCandidate(i, 1)
                ELSE result[i] = image[i]

\* A soft call with a single targeted region that has one opaque pixel at a
\* weight between 0.001 and 0.6, output as the candidate and changed by more
\* than 0.6 of the way, and one opaque pixel at a weight below 0.001, unchanged.
C26_Witness ==
    /\ SoftSingle
    /\ \E i, k \in 1..Len(image) :
          /\ Opaque(image[i]) /\ Opaque(image[k])
          /\ CallWeight(1, i) * 1000 >= W /\ CallWeight(1, i) * 10 < 6 * W
          /\ IsCandidate(i, 1)
          /\ Abs(result[i].r - image[i].r) + Abs(result[i].g - image[i].g)
                 + Abs(result[i].b - image[i].b) > 30
          /\ CallWeight(1, k) * 1000 < W
          /\ result[k] = image[k]
          /\ CallCandidate(1, k) /= Rgb(image[k].r, image[k].g, image[k].b)

\* Distance of pixel i to the centroid of region k of the mask call.
CentroidDistance(k, i) ==
    HslDistance(RgbToHsl(image[i].r, image[i].g, image[i].b),
                call.allRegions[k].centroidHsl)

\* The regions of the mask call at the least distance from pixel i.
AtMinimum(i) ==
    { k \in 1..Len(call.allRegions) :
        \A m \in 1..Len(call.allRegions) : CentroidDistance(k, i) <= CentroidDistance(m, i) }

\* C27: at every opaque pixel the regions with hard-mask weight 1 are exactly
\* the first region in list order at the minimum distance, and every other
\* region has weight 0, whichever region's mask the call generated.
C27_FirstAtMinimumWins ==
    (call.op = "generateRegionMask" /\ call.hardMask) =>
        \A i \in 1..Len(image) :
            Opaque(image[i]) =>
                /\ HardWeightsBinary(i)
                /\ HardWinners(i) = { k \in AtMinimum(i) : \A m \in AtMinimum(i) : k <= m }

\* A hard mask generated for a region that is at the minimum distance from an
\* opaque pixel together with an earlier region of another centroid, and has
\* weight 0 there.
C27_Witness ==
    /\ call.op = "generateRegionMask"
    /\ call.hardMask
    /\ \E i \in 1..Len(image) : \E k \in 1..Len(call.allRegions) :
          /\ Opaque(image[i])
          /\ k < call.region
          /\ {k, call.region} \subseteq AtMinimum(i)
          /\ call.allRegions[k].centroidHsl /= call.allRegions[call.region].centroidHsl
          /\ result[i] = 0
          /\ HardWinners(i) = {k}

\* A pixel with equal red, green and blue.
IsGray(px) == px.r = px.g /\ px.g = px.b

\* C28: an opaque gray pixel of the input is a gray pixel of the output of
\* applyHslAdjustment, applyMultiRegionAdjustment and applyReplacements.
C28_GrayStaysGray ==
    call.op \in {"applyHslAdjustment", "applyMultiRegionAdjustment", "applyReplacements"} =>
        \A i \in 1..Len(image) :
            (Opaque(image[i]) /\ IsGray(image[i])) => IsGray(result[i])

\* A soft compositor call with two regions carrying different targets of
\* saturation above 0 that changed a gray pixel.
C28_Witness ==
    /\ Composited
    /\ ~call.hardMask
    /\ Len(CallActive) = 2
    /\ CallActive[1].targetColor /= CallActive[2].targetColor
    /\ \A j \in 1..2 : HexToHsl(CallActive[j].targetColor).s > 0
    /\ \E i \in 1..Len(image) :
          /\ Opaque(image[i]) /\ IsGray(image[i])
          /\ \A j \in 1..2 : CallWeight(j, i) * 1000 >= W
          /\ IsGray(result[i])
          /\ result[i] /= image[i]

\* A replacement with a target of saturation above 0 matched a gray pixel and
\* changed it.
GrayReplaced ==
    /\ Replacing
    /\ \E i \in 1..Len(image) : \E j \in 1..Len(CallReplacements) :
          /\ IsGray(image[i]) /\ Matched(i, j)
          /\ IsGray(result[i]) /\ result[i] /= image[i]

\* The global adjustment toward a target of saturation above 0, on a buffer
\* whose dominant colour has saturation above 0, changed a gray pixel.
GrayAdjusted ==
    /\ call.op = "applyHslAdjustment"
    /\ RgbToHsl(call.targetRgb.r, call.targetRgb.g, call.targetRgb.b).s > 0
    /\ \E d \in { GetDominantColor(image) } : RgbToHsl(d.r, d.g, d.b).s > 0
    /\ \E i \in 1..Len(image) :
          IsGray(image[i]) /\ IsGray(result[i]) /\ result[i] /= image[i]

\* The pixels detectColorRegions samples and keeps: every fourth, alpha >= 128.
OpaqueSamples == { i \in 1..Len(image) : (i - 1) % 4 = 0 /\ image[i].a >= 128 }

\* The colours of the kept samples.
SampledColours == { Rgb(image[i].r, image[i].g, image[i].b) : i \in OpaqueSamples }

\* C29: detectColorRegions returns the empty list exactly when no sampled
\* pixel has alpha >= 128; otherwise it returns regionCount regions with
\* pairwise distinct ids and no target colour, whose pixelCounts are at least
\* 0 and sum to the number of kept samples.
C29_RegionListShape ==
    (Detecting /\ call.pc = "done") =>
        /\ (result = <<>>) <=> (OpaqueSamples = {})
        /\ OpaqueSamples /= {} =>
              /\ Len(result) = call.regionCount
              /\ \A j, k \in 1..Len(result) : j /= k => result[j].id /= result[k].id
              /\ \A j \in 1..Len(result) :
                    result[j].targetColor.null /\ result[j].pixelCount >= 0
              /\ SumSeq([j \in 1..Len(result) |-> result[j].pixelCount])
                     = Cardinality(OpaqueSamples)

\* A call for three regions returned on a buffer with several kept samples of
\* one colour: three regions, of which two have pixelCount 0.
C29_Witness ==
    /\ Detecting
    /\ call.pc = "done"
    /\ call.regionCount = 3
    /\ Cardinality(OpaqueSamples) > 1
    /\ Cardinality(SampledColours) = 1
    /\ Len(result) = 3
    /\ Cardinality({ j \in 1..3 : result[j].pixelCount = 0 }) = 2

\* A call returned the empty list on a buffer with pixels of alpha >= 128,
\* none of them sampled.
DetectedNothing ==
    /\ Detecting
    /\ call.pc = "done"
    /\ result = <<>>
    /\ \E i \in 1..Len(image) : image[i].a >= 128

\* An adjuster is in use.
Debouncing == adjuster.kind /= "none"

\* The last step was the callback of a timer.
TimerRan == Debouncing /\ call.op \in {"applyAdjustments", "applyReplacements"}

\* What a recolouring with the adjuster's present regions or replacements and
\* settings gives.
RecolorNow ==
    IF adjuster.kind = "MultiRegionTextureAdjuster"
    THEN IF Len(adjuster.regions) = 0 THEN result
         ELSE ApplyMultiRegionAdjustment(image, adjuster.regions, adjuster.maskSharpness,
                                         adjuster.useHardMasks)
    ELSE IF Len(adjuster.replacements) = 0
         THEN [i \in 1..Len(image) |-> Pixel(30, 30, 30, 255)]
         ELSE ApplyReplacements(image, adjuster.replacements)

\* At most one timer is pending, the one whose handle the adjuster keeps; the
\* callbacks that ran are one for each burst of calls that is over; after a
\* callback no timer is pending and the canvas shows the recolouring with the
\* regions or replacements and settings of that moment.
DebounceInvariant ==
    Debouncing =>
        /\ Cardinality(adjuster.pending) <= 1
        /\ adjuster.pending \subseteq {adjuster.timer}
        /\ adjuster.runs + Cardinality(adjuster.pending) = adjuster.bursts
        /\ TimerRan => (adjuster.pending = {} /\ result = RecolorNow)

\* C30: scheduleAdjustment and scheduleApply debounce: at most one timer is
\* pending at any time, a call cancels the pending one, a burst of calls is
\* followed by one execution of the recolouring, after the last call and with
\* the regions or replacements and settings of the time it fires; and a
\* pending timer does fire.
C30_Debounce ==
    /\ []DebounceInvariant
    /\ (Debouncing /\ adjuster.pending /= {}) ~> TimerRan

\* The callback ran once after a burst of three calls that left other
\* settings than the first call had set, and recoloured the canvas.
C30_Witness ==
    /\ TimerRan
    /\ adjuster.runs = 1
    /\ adjuster.bursts = 1
    /\ adjuster.nextTimer = 4
    /\ adjuster.timer = 3
    /\ call.timer = 3
    /\ result /= <<>>
    /\ result /= image

=============================================================================
